---- MODULE Spec2Model ----
(***************************************************************************)
(* Knowledge Index of rails-mcp-indexer: the relational store with         *)
(* fingerprint-based ingestion (CodeIndexer + IndexDatabase), the graph    *)
(* store (SQLiteGraphStore) and the graph builder (GraphBuilder).          *)
(*                                                                         *)
(* Seventeen specifications share this module:                             *)
(*   Spec           the indexing orchestrator over the relational store    *)
(*   SpecGraph      upsertNode / upsertEdge on the graph store             *)
(*   SpecNeighbors  neighbors over graphs drawn from a bounded family      *)
(*   SpecFind       findNodes over a populated graph store                 *)
(*   SpecBuilder    GraphBuilder.buildFromAST over the graph store         *)
(*   SpecRun        reindex() runs with failing writes and the schema store *)
(*   SpecBatch      batched concurrent indexing and parse dispatch          *)
(*   SpecSearch     the symbols table, its full-text index and the search   *)
(*   SpecSchema     the schema parser and the association mapper            *)
(*   SpecMapper     the association mapper's pure functions                *)
(*   SpecParse      indexFile's choice between the native and regex parser  *)
(*   SpecRebuild    buildFromAST of files and of their edited versions      *)
(*   SpecKey        method symbols as the parsers report them, and keys     *)
(*   SpecAssoc      one declared association through buildFromAST           *)
(*   SpecFiles      RubyParser.parseFiles with its results and errors maps  *)
(*   SpecCache      one builder's name -> id cache, and clearGraph          *)
(*   SpecHistory    SchemaParser instances parsing one text after another   *)
(***************************************************************************)
EXTENDS Integers, Sequences, FiniteSets, TLC

VARIABLES
  variant,      \* which CodeIndexer runs: "legacy" | "regex" | "native"
  now,          \* wall clock, in milliseconds
  disk,         \* the source tree: path -> [content, mtime]
  db,           \* IndexDatabase: files, symbols and the AUTOINCREMENT counters
  run,          \* position of reindex()/incrementalReindex()
  last,         \* what the last per-file step of a run decided
  base,         \* the store as the last completed reindex() left it
  g,            \* SQLiteGraphStore: kg_nodes, kg_edges and their id counters
  gq,           \* the last graph-store call: its arguments and what it returned
  nodeCache,    \* GraphBuilder.nodeCache: node key -> node id
  built,        \* the last buildFromAST call and the graph it started from
  metadata,     \* IndexDatabase: the metadata table, key -> value
  schemaFile,   \* the content version of db/schema.rb, 0 when it is absent
  sch,          \* IndexDatabase: the schema_* tables
  report,       \* what the last reindex() returned, and the run's counters
  runs,         \* how many reindex() calls have started
  faults,       \* how many statements have failed or been cut short so far
  batch,        \* a batched dispatch: its tasks, the thread and the connection
  fts,          \* IndexDatabase: the entries of the full-text index symbols_fts
  sq,           \* the last searchSymbols call: its arguments and what it returned
  sx            \* a db/schema.rb text on its way through parser, store and mapper

ixvars == <<variant, now, disk, db, run, last, base>>
gvars == <<g, gq, nodeCache, built>>
svars == <<fts, sq>>
xvars == <<metadata, schemaFile, sch, report, runs, faults, batch, svars, sx>>
vars == <<ixvars, gvars, xvars>>

-----------------------------------------------------------------------------
(* Bounds of the model *)

MaxTime == 1
MaxContent == 2
MaxSymId == 5
MaxEdges == 2
MaxChain == 5

-----------------------------------------------------------------------------
(* Inputs: the source tree and the external extractor *)

Paths == {"app/models/a.rb", "lib/b.rb"}

\* Content versions of a file. Version 0 stands for a file that cannot be
\* read (fs.statSync / fs.readFileSync throw).
Contents == 0..MaxContent

Readable(c) == c # 0

\* The Parse Result Contract for a readable content version: the symbols and
\* associations the extractor reports.  Odd versions declare one class, even
\* versions declare a class, a method and a has_many association.
ParseSymbols(c) ==
  IF c % 2 = 1
    THEN << [name |-> "Post", type |-> "class"] >>
    ELSE << [name |-> "User", type |-> "class"],
            [name |-> "save", type |-> "method"] >>

ParseAssociations(c) ==
  IF c % 2 = 1 THEN << >> ELSE << [name |-> "posts", type |-> "has_many"] >>

LineCount(c) == 10 * c

NoRow == [id |-> 0]

-----------------------------------------------------------------------------
(* IndexDatabase *)

\* crypto.createHash('sha256').update(content).digest('hex'): distinct
\* contents give distinct digests.
Sha256(c) == <<"sha256", c>>

\* railsPatterns, tried in insertion order; the paths of the model only reach
\* the 'model' pattern and the default.
detectFileType(p) == IF p = "app/models/a.rb" THEN "model" ELSE "ruby"

getFileByPath(d, p) == d.files[p]

\* INSERT OR REPLACE in place of the upsert: the conflicting row is deleted and
\* the new one takes a fresh id.
upsertFileReplace(d, p, hash, lastIndexed, fileType, lineCount) ==
  [d EXCEPT !.files[p] = [id |-> d.nextFileId, hash |-> hash,
                          last_indexed |-> lastIndexed,
                          file_type |-> fileType, line_count |-> lineCount],
            !.nextFileId = @ + 1]

\* INSERT ... ON CONFLICT(path) DO UPDATE ... RETURNING id: a conflicting row
\* keeps its id, a new row takes the next AUTOINCREMENT id.
upsertFile(d, p, hash, lastIndexed, fileType, lineCount) ==
  LET old == d.files[p]
      id  == IF old = NoRow THEN d.nextFileId ELSE old.id
      row == [id |-> id, hash |-> hash, last_indexed |-> lastIndexed,
              file_type |-> fileType, line_count |-> lineCount]
  IN [d EXCEPT !.files[p] = row,
               !.nextFileId = IF old = NoRow THEN @ + 1 ELSE @]

FileId(d, p) == d.files[p].id

insertSymbol(d, fileId, sym) ==
  [d EXCEPT !.symbols = @ \cup {[id |-> d.nextSymId, file_id |-> fileId,
                                 name |-> sym.name, type |-> sym.type]},
            !.nextSymId = @ + 1]

RECURSIVE insertSymbols(_, _, _)
insertSymbols(d, fileId, syms) ==
  IF syms = << >> THEN d
  ELSE insertSymbols(insertSymbol(d, fileId, Head(syms)), fileId, Tail(syms))

deleteSymbolsForFile(d, fileId) ==
  [d EXCEPT !.symbols = {s \in @ : s.file_id # fileId}]

\* DELETE FROM symbols; DELETE FROM files.  AUTOINCREMENT keeps counting.
clearAll(d) ==
  [d EXCEPT !.symbols = {}, !.files = [p \in Paths |-> NoRow]]

-----------------------------------------------------------------------------
(* CodeIndexer *)

AssociationSymbols(c) ==
  [i \in 1..Len(ParseAssociations(c)) |->
     [name |-> ParseAssociations(c)[i].name, type |-> "association"]]

\* CodeIndexer.indexFile of the indexer with native-parser support.  The file
\* is read and hashed first; an unreadable file throws before anything is
\* written.  Two skip tests follow: equal hash when the regex parser is in
\* use, and mtime earlier than last_indexed with an equal hash.  Otherwise
\* the file row is upserted and the parse result's symbols, then its
\* associations, are inserted.
indexFile(d, p, file, useNativeParser, t) ==
  IF ~Readable(file.content) THEN [db |-> d, outcome |-> "threw"]
  ELSE
    LET hash         == Sha256(file.content)
        existingFile == getFileByPath(d, p)
        unchanged    == /\ existingFile # NoRow
                        /\ existingFile.hash = hash
                        /\ ~useNativeParser
        notModified  == /\ existingFile # NoRow
                        /\ file.mtime < existingFile.last_indexed
                        /\ existingFile.hash = hash
    IN IF unchanged \/ notModified THEN [db |-> d, outcome |-> "skipped"]
       ELSE
         LET d1 == upsertFile(d, p, hash, t, detectFileType(p),
                              LineCount(file.content))
             d2 == insertSymbols(d1, FileId(d1, p), ParseSymbols(file.content))
             d3 == insertSymbols(d2, FileId(d1, p),
                                 AssociationSymbols(file.content))
         IN [db |-> d3, outcome |-> "indexed"]

\* CodeIndexer.indexFile of the first indexer: skip on equal hash, otherwise
\* BEGIN; upsertFile; deleteSymbolsForFile; insertSymbol*; COMMIT.  Every
\* error is caught and logged inside, so the caller never sees one.
legacyIndexFile(d, p, file, t) ==
  IF ~Readable(file.content) THEN [db |-> d, outcome |-> "logged"]
  ELSE
    LET hash         == Sha256(file.content)
        existingFile == d.files[p]
    IN IF existingFile # NoRow /\ existingFile.hash = hash
         THEN [db |-> d, outcome |-> "skipped"]
         ELSE
           LET d1 == upsertFile(d, p, hash, t, detectFileType(p),
                                LineCount(file.content))
               d2 == deleteSymbolsForFile(d1, FileId(d1, p))
               d3 == insertSymbols(d2, FileId(d1, p),
                                   ParseSymbols(file.content))
           IN [db |-> d3, outcome |-> "indexed"]

\* The test incrementalReindex makes before it calls indexFile.
needsIncremental(d, p, file) ==
  LET existingFile == getFileByPath(d, p)
  IN \/ existingFile = NoRow
     \/ file.mtime > existingFile.last_indexed

Idle == [kind |-> "idle", todo |-> {}]
NoLast == [path |-> "none"]
NoBase == [valid |-> FALSE]

\* What one per-file step of a run found and did: whether the path had no row,
\* whether the stored hash differed from the current one, and whether the file
\* was re-derived (parsed and its rows rewritten).
Decision(d, p, file, outcome) ==
  [path        |-> p,
   readable    |-> Readable(file.content),
   isNew       |-> d.files[p] = NoRow,
   hashDiffers |-> d.files[p] # NoRow /\ d.files[p].hash # Sha256(file.content),
   mtimeLater  |-> d.files[p] # NoRow /\ file.mtime > d.files[p].last_indexed,
   rederived   |-> outcome = "indexed"]

\* The symbols table's AUTOINCREMENT id is capped by the model: a file is only
\* processed while the ids its rows may take stay within MaxSymId.
HasRoom(c) ==
  db.nextSymId + Len(ParseSymbols(c)) + Len(ParseAssociations(c)) <= MaxSymId + 1

IxInit ==
  /\ variant \in {"legacy", "regex", "native"}
  /\ now = 0
  /\ disk \in [Paths -> [content : {1}, mtime : {0}]]
  /\ db = [files |-> [p \in Paths |-> NoRow], symbols |-> {},
           nextFileId |-> 1, nextSymId |-> 1]
  /\ run = Idle
  /\ last = NoLast
  /\ base = NoBase

Tick ==
  /\ now < MaxTime
  /\ now' = now + 1
  /\ UNCHANGED <<variant, disk, db, run, last, base>> /\ UNCHANGED <<gvars, xvars>>

\* The environment writes a file (new content, or the same content again) and
\* leaves it with an mtime up to the current time.
ModifyFile(p, c, m) ==
  /\ run = Idle
  /\ m <= now
  /\ [content |-> c, mtime |-> m] # disk[p]
  /\ disk' = [disk EXCEPT ![p] = [content |-> c, mtime |-> m]]
  /\ base' = IF base.valid THEN [base EXCEPT !.modified = @ \cup {p}] ELSE base
  /\ UNCHANGED <<variant, now, db, run, last>> /\ UNCHANGED <<gvars, xvars>>

\* reindex(paths, full): the first indexer ignores `full`; the second clears
\* the store first when it is set.  Then every enumerated file is indexed.
StartReindex(full) ==
  /\ run = Idle
  /\ db' = IF full /\ variant # "legacy" THEN clearAll(db) ELSE db
  /\ run' = [kind |-> "reindex", todo |-> Paths]
  /\ base' = NoBase
  /\ last' = NoLast
  /\ UNCHANGED <<variant, now, disk>> /\ UNCHANGED <<gvars, xvars>>

StartIncremental ==
  /\ run = Idle
  /\ variant # "legacy"
  /\ run' = [kind |-> "incremental", todo |-> Paths]
  /\ last' = NoLast
  /\ UNCHANGED <<variant, now, disk, db, base>> /\ UNCHANGED <<gvars, xvars>>

ReindexFile(p) ==
  /\ run.kind = "reindex"
  /\ p \in run.todo
  /\ HasRoom(disk[p].content)
  /\ LET r == IF variant = "legacy"
                THEN legacyIndexFile(db, p, disk[p], now)
                ELSE indexFile(db, p, disk[p], variant = "native", now)
     IN /\ db' = r.db
        /\ last' = Decision(db, p, disk[p], r.outcome)
  /\ run' = [run EXCEPT !.todo = @ \ {p}]
  /\ UNCHANGED <<variant, now, disk, base>> /\ UNCHANGED <<gvars, xvars>>

IncrementalFile(p) ==
  /\ run.kind = "incremental"
  /\ p \in run.todo
  /\ HasRoom(disk[p].content)
  /\ LET r == IF ~Readable(disk[p].content)
                THEN [db |-> db, outcome |-> "threw"]
                ELSE IF needsIncremental(db, p, disk[p])
                THEN indexFile(db, p, disk[p], variant = "native", now)
                ELSE [db |-> db, outcome |-> "unchecked"]
     IN /\ db' = r.db
        /\ last' = Decision(db, p, disk[p], r.outcome)
  /\ run' = [run EXCEPT !.todo = @ \ {p}]
  /\ UNCHANGED <<variant, now, disk, base>> /\ UNCHANGED <<gvars, xvars>>

FinishRun ==
  /\ run.kind # "idle"
  /\ run.todo = {}
  /\ run' = Idle
  /\ base' = IF run.kind = "reindex"
               THEN [valid |-> TRUE, files |-> db.files,
                     symbols |-> db.symbols, modified |-> {}]
               ELSE NoBase
  /\ last' = NoLast
  /\ UNCHANGED <<variant, now, disk, db>> /\ UNCHANGED <<gvars, xvars>>

IxNext ==
  \/ Tick
  \/ \E p \in Paths, c \in Contents, m \in 0..MaxTime :
       ModifyFile(p, c, m)
  \/ \E full \in BOOLEAN : StartReindex(full)
  \/ StartIncremental
  \/ \E p \in Paths : ReindexFile(p)
  \/ \E p \in Paths : IncrementalFile(p)
  \/ FinishRun

EmptyGraph == [nodes |-> {}, edges |-> {}, nextNodeId |-> 1, nextEdgeId |-> 1]
NoCall == [op |-> "none"]
NoBuild == [file |-> "none"]

GraphUnused ==
  /\ g = EmptyGraph
  /\ gq = NoCall
  /\ nodeCache = {}
  /\ built = NoBuild

IndexerUnused ==
  /\ variant = "regex"
  /\ now = 0
  /\ disk = [p \in Paths |-> [content |-> 1, mtime |-> 0]]
  /\ db = [files |-> [p \in Paths |-> NoRow], symbols |-> {},
           nextFileId |-> 1, nextSymId |-> 1]
  /\ run = Idle
  /\ last = NoLast
  /\ base = NoBase

\* The variables of the other specifications, at rest.
NoMeta == [repo_path |-> "", index_started_at |-> -1, last_indexed |-> -1,
           last_index_file_count |-> -1, schema_version |-> 0]
EmptySchema == [tables |-> {}, columns |-> {}, indexes |-> {}, foreign_keys |-> {},
                nextTableId |-> 1]
NoReport == [success |-> "none"]
NoBatch == [op |-> "none"]
NoText == [stage |-> "none"]

ExtrasUnused ==
  /\ metadata = NoMeta
  /\ schemaFile = 0
  /\ sch = EmptySchema
  /\ report = NoReport
  /\ runs = 0
  /\ faults = 0
  /\ batch = NoBatch
  /\ fts = {}
  /\ sq = NoCall
  /\ sx = NoText

Init == IxInit /\ GraphUnused /\ ExtrasUnused

Spec == Init /\ [][IxNext]_vars

-----------------------------------------------------------------------------
(* Claims about the indexing orchestrator, checked under Spec *)

\* C1: during a reindex or an incremental reindex a (readable) file is
\* re-derived if and only if it is new or its current fingerprint differs from
\* the stored one, whatever its modification time.
C1_RederivedIffNewOrChanged ==
  (last # NoLast /\ last.readable) =>
    (last.rederived <=> (last.isNew \/ last.hashDiffers))

\* The rows one successful indexFile stores for content c.
StoredParse(c) ==
  IF variant = "legacy" THEN ParseSymbols(c)
  ELSE ParseSymbols(c) \o AssociationSymbols(c)

SymbolsOf(symbols, fileId) == {s \in symbols : s.file_id = fileId}

\* C2: the symbols stored for a file are exactly the symbols of the file's
\* most recent successful parse (the one whose fingerprint the file row holds):
\* no symbol of an earlier version survives and none is stored twice.
C2_SymbolsAreLatestParse ==
  /\ \A s \in db.symbols : \E p \in Paths : db.files[p].id = s.file_id
  /\ \A p \in Paths :
       db.files[p] # NoRow =>
         LET parsed == StoredParse(db.files[p].hash[2])
             rows   == SymbolsOf(db.symbols, db.files[p].id)
         IN /\ Cardinality(rows) = Len(parsed)
            /\ {[name |-> s.name, type |-> s.type] : s \in rows}
                 = {parsed[i] : i \in 1..Len(parsed)}

\* C4: in an incremental reindex that follows a completed reindex after which
\* exactly one file was written, every other file keeps its file row (id,
\* fingerprint, last-indexed time) and its symbol rows (ids included), and the
\* written file keeps its file id.
C4_IncrementalFrame ==
  (run.kind = "incremental" /\ base.valid /\ Cardinality(base.modified) = 1) =>
    \A p \in Paths :
      IF p \in base.modified
        THEN base.files[p] # NoRow => db.files[p].id = base.files[p].id
        ELSE /\ db.files[p] = base.files[p]
             /\ \A id \in {db.files[p].id, base.files[p].id} :
                  SymbolsOf(db.symbols, id) = SymbolsOf(base.symbols, id)

\* An incremental reindex has gone through every file; the one written file
\* was re-derived under its old id and the other file has rows to keep.
C4_Witness ==
  /\ run.kind = "incremental" /\ run.todo = {}
  /\ base.valid /\ Cardinality(base.modified) = 1
  /\ \A p \in Paths :
       IF p \in base.modified
         THEN /\ base.files[p] # NoRow
              /\ db.files[p].hash # base.files[p].hash
              /\ db.files[p].id = base.files[p].id
         ELSE /\ base.files[p] # NoRow
              /\ SymbolsOf(base.symbols, base.files[p].id) # {}

-----------------------------------------------------------------------------
(* SQLiteGraphStore *)

\* A text value whose characters matter is a sequence of one-character
\* strings, a path the sequence of its segments.  SQL NULL is <<>> for a text
\* column and 0 for a line number: the store writes `n.file_path || null` and
\* `n.start_line || null`, which send the empty string and 0 there.
NullNode == [id |-> 0]

\* A KGNode / KGEdge argument with its optional fields left out.
KGNode(kind, key) ==
  [kind |-> kind, key |-> key, label |-> <<>>, source |-> "ast",
   file_path |-> <<>>, start_line |-> 0, end_line |-> 0, meta_json |-> {}]

KGEdge(kind, src, dst) ==
  [kind |-> kind, src_id |-> src, dst_id |-> dst,
   src_loc |-> <<>>, dst_loc |-> <<>>, meta_json |-> {}]

getNode(gr, id) ==
  IF \E n \in gr.nodes : n.id = id
    THEN CHOOSE n \in gr.nodes : n.id = id
    ELSE NullNode

getNodeByKey(gr, kind, key) ==
  IF \E n \in gr.nodes : n.kind = kind /\ n.key = key
    THEN CHOOSE n \in gr.nodes : n.kind = kind /\ n.key = key
    ELSE NullNode

\* The row upsertNode writes for argument n under the given id.
NodeRow(id, n) ==
  [id |-> id, kind |-> n.kind, key |-> n.key,
   label |-> IF n.label = <<>> THEN n.key ELSE n.label,
   source |-> n.source, file_path |-> n.file_path,
   start_line |-> n.start_line, end_line |-> n.end_line,
   meta_json |-> n.meta_json]

\* A plain INSERT in place of the upsert: every call adds a row.
insertNode(gr, n) ==
  [gr EXCEPT !.nodes = @ \cup {NodeRow(gr.nextNodeId, n)},
             !.nextNodeId = @ + 1]

\* ON CONFLICT(kind, key) DO NOTHING in place of DO UPDATE: the first row stays.
upsertNodeKeepFirst(gr, n) ==
  IF getNodeByKey(gr, n.kind, n.key) = NullNode THEN insertNode(gr, n) ELSE gr

\* INSERT INTO kg_nodes ... ON CONFLICT(kind, key) DO UPDATE SET label, source,
\* file_path, start_line, end_line, meta_json = excluded.*  RETURNING id
upsertNode(gr, n) ==
  LET old == getNodeByKey(gr, n.kind, n.key)
  IN IF old = NullNode
       THEN [gr EXCEPT !.nodes = @ \cup {NodeRow(gr.nextNodeId, n)},
                       !.nextNodeId = @ + 1]
       ELSE [gr EXCEPT !.nodes = (@ \ {old}) \cup {NodeRow(old.id, n)}]

\* RETURNING id, read back after the statement.
NodeId(gr, kind, key) == getNodeByKey(gr, kind, key).id

EdgeByKey(gr, kind, src, dst) ==
  {e \in gr.edges : e.kind = kind /\ e.src_id = src /\ e.dst_id = dst}

EdgeRow(id, e) ==
  [id |-> id, kind |-> e.kind, src_id |-> e.src_id, dst_id |-> e.dst_id,
   src_loc |-> e.src_loc, dst_loc |-> e.dst_loc, meta_json |-> e.meta_json]

\* A plain INSERT in place of the upsert: every call adds a row.
insertEdge(gr, e) ==
  [gr EXCEPT !.edges = @ \cup {EdgeRow(gr.nextEdgeId, e)},
             !.nextEdgeId = @ + 1]

\* INSERT INTO kg_edges ... ON CONFLICT(kind, src_id, dst_id) DO UPDATE SET
\* src_loc, dst_loc, meta_json = excluded.*  RETURNING id
upsertEdge(gr, e) ==
  LET old == EdgeByKey(gr, e.kind, e.src_id, e.dst_id)
  IN IF old = {}
       THEN [gr EXCEPT !.edges = @ \cup {EdgeRow(gr.nextEdgeId, e)},
                       !.nextEdgeId = @ + 1]
       ELSE [gr EXCEPT !.edges =
               (@ \ old) \cup {EdgeRow((CHOOSE o \in old : TRUE).id, e)}]

EdgeId(gr, kind, src, dst) == (CHOOSE e \in EdgeByKey(gr, kind, src, dst) : TRUE).id

-----------------------------------------------------------------------------
(* SpecGraph: callers upserting nodes and edges *)

\* Definition of a class or module anchored in a file.
Anchored(n) ==
  [n EXCEPT !.file_path = <<"app", "models", "a.rb">>, !.start_line = 1,
            !.end_line = 9, !.label = <<"L", "a", "b", "e", "l">>]

\* class Base arrives as a bare placeholder and as an anchored definition,
\* module Base (the same key under another kind) as a placeholder.
NodeInputs ==
  {KGNode("class", <<"B", "a", "s", "e">>),
   Anchored(KGNode("class", <<"B", "a", "s", "e">>)),
   KGNode("module", <<"B", "a", "s", "e">>)}

EdgeKinds == {"inherits", "includes"}

GraphInit ==
  /\ g = EmptyGraph
  /\ gq = NoCall
  /\ nodeCache = {}
  /\ built = NoBuild

\* gq keeps, for the claims, the key of the call, whether the key was present,
\* the row counts before the call and the id returned; gq.first is the id the
\* key got when it was first inserted.
UpsertNode(n) ==
  /\ g' = upsertNode(g, n)
  /\ gq' = [op |-> "upsertNode", kind |-> n.kind, key |-> n.key,
            present |-> getNodeByKey(g, n.kind, n.key) # NullNode,
            first |-> getNodeByKey(g, n.kind, n.key).id,
            count |-> Cardinality(g.nodes),
            id |-> NodeId(g', n.kind, n.key)]
  /\ UNCHANGED <<nodeCache, built>> /\ UNCHANGED <<ixvars, xvars>>

UpsertEdge(kind, src, dst, loc) ==
  /\ kind = "includes" => loc = <<>>
  /\ getNode(g, src) # NullNode
  /\ getNode(g, dst) # NullNode
  /\ Cardinality(g.edges) < MaxEdges \/ EdgeByKey(g, kind, src, dst) # {}
  /\ g' = upsertEdge(g, [KGEdge(kind, src, dst) EXCEPT !.src_loc = loc])
  /\ gq' = [op |-> "upsertEdge", kind |-> kind, src_id |-> src, dst_id |-> dst,
            present |-> EdgeByKey(g, kind, src, dst) # {},
            first |-> IF EdgeByKey(g, kind, src, dst) = {} THEN 0
                      ELSE EdgeId(g, kind, src, dst),
            count |-> Cardinality(g.edges),
            id |-> EdgeId(g', kind, src, dst)]
  /\ UNCHANGED <<nodeCache, built>> /\ UNCHANGED <<ixvars, xvars>>

GraphNext ==
  \/ \E n \in NodeInputs : UpsertNode(n)
  \/ \E kind \in EdgeKinds, src \in 1..Cardinality(NodeInputs),
        dst \in 1..Cardinality(NodeInputs),
        loc \in {<<>>, <<"app", "models", "a.rb", ":", "1">>} :
          UpsertEdge(kind, src, dst, loc)

InitGraph == GraphInit /\ IndexerUnused /\ ExtrasUnused

SpecGraph == InitGraph /\ [][GraphNext]_vars

\* C5: no two nodes share (kind, key) and no two edges share (kind, src_id,
\* dst_id); an upsert whose key is already present leaves the row count
\* unchanged and returns the id first assigned to that key.
C5_UpsertDedup ==
  /\ \A m, n \in g.nodes : (m.kind = n.kind /\ m.key = n.key) => m = n
  /\ \A e, f \in g.edges :
       (e.kind = f.kind /\ e.src_id = f.src_id /\ e.dst_id = f.dst_id) => e = f
  /\ \A m, n \in g.nodes : m.id = n.id => m = n
  /\ \A e, f \in g.edges : e.id = f.id => e = f
  /\ (gq.op = "upsertNode" /\ gq.present) =>
       /\ Cardinality(g.nodes) = gq.count
       /\ gq.id = gq.first
  /\ (gq.op = "upsertEdge" /\ gq.present) =>
       /\ Cardinality(g.edges) = gq.count
       /\ gq.id = gq.first

\* A node key and an edge key have each been upserted again with other fields.
C5_Witness ==
  /\ gq.op = "upsertEdge" /\ gq.present
  /\ gq.id = gq.first
  /\ \E n \in g.nodes : n.kind = "class" /\ n.file_path # <<>>
  /\ \E n \in g.nodes : n.kind = "module"

-----------------------------------------------------------------------------
(* SQLiteGraphStore.neighbors *)

\* The rows of a SELECT without ORDER BY, in rowid order.
RECURSIVE RowsById(_)
RowsById(rows) ==
  IF rows = {} THEN << >>
  ELSE LET first == CHOOSE r \in rows : \A o \in rows : r.id <= o.id
       IN <<first>> \o RowsById(rows \ {first})

\* SELECT * FROM kg_edges WHERE src_id = ? [AND kind IN (...)]; the kind test
\* is only added for a non-empty edgeKinds.
outEdges(gr, id, edgeKinds) ==
  RowsById({e \in gr.edges : e.src_id = id /\ (edgeKinds = {} \/ e.kind \in edgeKinds)})

inEdges(gr, id, edgeKinds) ==
  RowsById({e \in gr.edges : e.dst_id = id /\ (edgeKinds = {} \/ e.kind \in edgeKinds)})

\* The loop over fetched edges with the visitedNodes test left out: the far
\* endpoint is pushed and queued every time an unvisited edge reaches it.
RECURSIVE visitEdgesNoNodeTest(_, _, _, _, _)
visitEdgesNoNodeTest(gr, st, es, level, out) ==
  IF es = << >> THEN st
  ELSE
    LET edge  == Head(es)
        other == IF out THEN edge.dst_id ELSE edge.src_id
        node  == getNode(gr, other)
        st1   == IF edge.id \in st.visitedEdges THEN st
                 ELSE LET a == [st EXCEPT !.visitedEdges = @ \cup {edge.id},
                                          !.edges = Append(@, edge),
                                          !.visitedNodes = @ \cup {other}]
                      IN IF node = NullNode THEN a
                         ELSE [a EXCEPT !.nodes = Append(@, node),
                                        !.queue = Append(@, [nodeId |-> other,
                                                             level |-> level + 1])]
    IN visitEdgesNoNodeTest(gr, st1, Tail(es), level, out)

\* `for (const edge of outEdges)` / `for (const edge of inEdges)`: an edge not
\* seen before is recorded; its far endpoint (dst_id going out, src_id coming
\* in), when not seen before, is marked visited and, if the node row exists,
\* pushed to the result and queued one level deeper.
RECURSIVE visitEdges(_, _, _, _, _)
visitEdges(gr, st, es, level, out) ==
  IF es = << >> THEN st
  ELSE
    LET edge  == Head(es)
        other == IF out THEN edge.dst_id ELSE edge.src_id
        node  == getNode(gr, other)
        st1   == IF edge.id \in st.visitedEdges THEN st
                 ELSE LET a == [st EXCEPT !.visitedEdges = @ \cup {edge.id},
                                          !.edges = Append(@, edge)]
                      IN IF other \in a.visitedNodes THEN a
                         ELSE LET b == [a EXCEPT !.visitedNodes = @ \cup {other}]
                              IN IF node = NullNode THEN b
                                 ELSE [b EXCEPT !.nodes = Append(@, node),
                                                !.queue = Append(@, [nodeId |-> other,
                                                                     level |-> level + 1])]
    IN visitEdges(gr, st1, Tail(es), level, out)

\* `if (level >= depth) continue;` written with > : one level too deep.
beyondDepthOffByOne(level, depth) == level > depth

\* `if (level >= depth) continue;`
beyondDepth(level, depth) == level >= depth

\* `while (queue.length > 0)`.  st.expanded lists, in order, the nodes whose
\* edges were fetched.
RECURSIVE traverse(_, _, _, _, _)
traverse(gr, st, edgeKinds, dir, depth) ==
  IF st.queue = << >> THEN st
  ELSE
    LET cur == Head(st.queue)
        st0 == [st EXCEPT !.queue = Tail(@)]
    IN IF beyondDepth(cur.level, depth)
         THEN traverse(gr, st0, edgeKinds, dir, depth)
         ELSE
           LET st1 == [st0 EXCEPT !.expanded = Append(@, cur.nodeId)]
               st2 == IF dir \in {"out", "both"}
                        THEN visitEdges(gr, st1, outEdges(gr, cur.nodeId, edgeKinds),
                                        cur.level, TRUE)
                        ELSE st1
               st3 == IF dir \in {"in", "both"}
                        THEN visitEdges(gr, st2, inEdges(gr, cur.nodeId, edgeKinds),
                                        cur.level, FALSE)
                        ELSE st2
           IN traverse(gr, st3, edgeKinds, dir, depth)

\* The traversal with `nodes.push(startNode)` left out.
traverseFromWithoutStart(gr, nodeId, edgeKinds, dir, depth) ==
  LET st == [queue        |-> << [nodeId |-> nodeId, level |-> 0] >>,
             visitedNodes |-> {nodeId},
             visitedEdges |-> {},
             nodes        |-> << >>,
             edges        |-> << >>,
             expanded     |-> << >>]
      end == traverse(gr, st, edgeKinds, dir, depth)
  IN [nodes |-> end.nodes, edges |-> end.edges, expanded |-> end.expanded]

\* The traversal from nodeId to the given depth, the depth taken as it is.
traverseFrom(gr, nodeId, edgeKinds, dir, depth) ==
  LET startNode == getNode(gr, nodeId)
      st == [queue        |-> << [nodeId |-> nodeId, level |-> 0] >>,
             visitedNodes |-> {nodeId},
             visitedEdges |-> {},
             nodes        |-> IF startNode = NullNode THEN << >> ELSE <<startNode>>,
             edges        |-> << >>,
             expanded     |-> << >>]
      end == traverse(gr, st, edgeKinds, dir, depth)
  IN [nodes |-> end.nodes, edges |-> end.edges, expanded |-> end.expanded]

\* `if (depth < 1 || depth > 3) { depth = 1; }`
effectiveDepth(depth) == IF depth < 1 \/ depth > 3 THEN 1 ELSE depth

neighbors(gr, nodeId, edgeKinds, dir, depth) ==
  traverseFrom(gr, nodeId, edgeKinds, dir, effectiveDepth(depth))

-----------------------------------------------------------------------------
(* SpecNeighbors: neighbors called on graphs of a bounded family *)

\* Nodes 1..MaxChain.  The family: a chain 1 -> 2 -> ... of `len` inherits
\* edges, and any of: the edge closing the chain into a cycle, a self-loop on
\* node 1, an includes edge parallel to 1 -> 2, an includes edge 3 -> 2 against
\* the chain, and an edge from 2 to a node id that has no row.
ChainNodes ==
  {NodeRow(i, KGNode("class", <<"C", i>>)) : i \in 1..MaxChain}

ExtraEdges ==
  { KGEdge("inherits", MaxChain, 1), KGEdge("inherits", 1, 1),
    KGEdge("includes", 1, 2), KGEdge("includes", 3, 2),
    KGEdge("inherits", 2, MaxChain + 1) }

RECURSIVE upsertEdges(_, _)
upsertEdges(gr, es) ==
  IF es = {} THEN gr
  ELSE LET e == CHOOSE x \in es : \A y \in es :
                  <<x.src_id, x.dst_id, x.kind>> = <<y.src_id, y.dst_id, y.kind>>
                  \/ x.src_id < y.src_id
                  \/ (x.src_id = y.src_id /\ x.dst_id < y.dst_id)
                  \/ (x.src_id = y.src_id /\ x.dst_id = y.dst_id /\ x.kind = "inherits")
       IN upsertEdges(upsertEdge(gr, e), es \ {e})

ChainGraph(len, extras) ==
  upsertEdges([nodes |-> ChainNodes, edges |-> {},
               nextNodeId |-> MaxChain + 1, nextEdgeId |-> 1],
              {KGEdge("inherits", i, i + 1) : i \in 1..len} \cup extras)

Directions == {"out", "in", "both"}
KindFilters == {{}, {"inherits"}, {"includes"}}
Depths == 0..5

InitNeighbors ==
  /\ \E len \in 0..(MaxChain - 1), extras \in SUBSET ExtraEdges :
       g = ChainGraph(len, extras)
  /\ gq = NoCall
  /\ nodeCache = {}
  /\ built = NoBuild
  /\ IndexerUnused /\ ExtrasUnused

\* neighbors only reads the store, so a behaviour holds one call: a second
\* call would start from the same graph.
Neighbors(nodeId, edgeKinds, dir, depth) ==
  /\ gq = NoCall
  /\ gq' = [op |-> "neighbors", nodeId |-> nodeId, edgeKinds |-> edgeKinds,
            dir |-> dir, depth |-> depth,
            result |-> neighbors(g, nodeId, edgeKinds, dir, depth)]
  /\ UNCHANGED <<g, nodeCache, built>> /\ UNCHANGED <<ixvars, xvars>>

NeighborsNext ==
  \E nodeId \in 1..(MaxChain + 1), edgeKinds \in KindFilters,
     dir \in Directions, depth \in Depths :
       Neighbors(nodeId, edgeKinds, dir, depth)

SpecNeighbors == InitNeighbors /\ [][NeighborsNext]_vars

-----------------------------------------------------------------------------
(* Claims about neighbors, checked under SpecNeighbors *)

\* The depth the specification asks for: the request clamped into [1, 3].
Clamp(d) == IF d < 1 THEN 1 ELSE IF d > 3 THEN 3 ELSE d

\* The ids one step away from the set S along an edge the filter and the
\* direction allow.
OneStep(gr, S, edgeKinds, dir) ==
  LET allowed == {e \in gr.edges : edgeKinds = {} \/ e.kind \in edgeKinds}
  IN {e.dst_id : e \in {x \in allowed : dir # "in" /\ x.src_id \in S}}
     \cup {e.src_id : e \in {x \in allowed : dir # "out" /\ x.dst_id \in S}}

\* The ids at distance at most k from start.
RECURSIVE Within(_, _, _, _, _)
Within(gr, start, edgeKinds, dir, k) ==
  IF k = 0 THEN {start}
  ELSE LET S == Within(gr, start, edgeKinds, dir, k - 1)
       IN S \cup OneStep(gr, S, edgeKinds, dir)

Ids(seq) == {seq[i].id : i \in 1..Len(seq)}

NoRepeat(seq) == \A i, j \in 1..Len(seq) : i # j => seq[i] # seq[j]

\* C7: for every requested depth d, no returned node lies further from the
\* start node than min(max(d,1),3), along edges the filter and direction allow.
C7_WithinClampedDepth ==
  gq.op = "neighbors" =>
    Ids(gq.result.nodes)
      \subseteq Within(g, gq.nodeId, gq.edgeKinds, gq.dir, Clamp(gq.depth))

\* A depth-3 request going out along a chain that continues past distance 3:
\* the nodes at distance 1, 2 and 3 are returned, the one at distance 4 exists.
C7_Witness ==
  /\ gq.op = "neighbors" /\ gq.depth = 3 /\ gq.dir = "out" /\ gq.nodeId = 1
  /\ Ids(gq.result.nodes) = {1, 2, 3, 4}
  /\ 5 \in Within(g, 1, gq.edgeKinds, "out", 4)

\* C8: for every requested depth d the result is the result of a traversal
\* with depth min(max(d,1),3).
C8_ResultOfClampedDepth ==
  gq.op = "neighbors" =>
    LET clamped == traverseFrom(g, gq.nodeId, gq.edgeKinds, gq.dir, Clamp(gq.depth))
    IN /\ gq.result.nodes = clamped.nodes
       /\ gq.result.edges = clamped.edges

\* C9: in every result each node and each edge appears at most once, the
\* start node is included when it exists, and no node has its edges fetched
\* more than once.
C9_VisitedOnce ==
  gq.op = "neighbors" =>
    /\ NoRepeat([i \in 1..Len(gq.result.nodes) |-> gq.result.nodes[i].id])
    /\ NoRepeat([i \in 1..Len(gq.result.edges) |-> gq.result.edges[i].id])
    /\ getNode(g, gq.nodeId) # NullNode => gq.nodeId \in Ids(gq.result.nodes)
    /\ NoRepeat(gq.result.expanded)

\* A depth-3 traversal in both directions over a graph with the cycle, the
\* self-loop and the parallel edge: every node and every edge is returned.
C9_Witness ==
  /\ gq.op = "neighbors" /\ gq.depth = 3 /\ gq.dir = "both" /\ gq.edgeKinds = {}
  /\ \E e \in g.edges : e.src_id = e.dst_id
  /\ \E e, f \in g.edges : e # f /\ e.src_id = f.src_id /\ e.dst_id = f.dst_id
  /\ \E e \in g.edges : e.src_id = MaxChain /\ e.dst_id = 1
  /\ Cardinality(g.edges) >= MaxChain + 2
  /\ Ids(gq.result.edges) = {e.id : e \in g.edges}
  /\ Len(gq.result.expanded) >= 3

-----------------------------------------------------------------------------
(* SQLiteGraphStore.findNodes *)

\* Where the model looks inside a text value (LIKE, ORDER BY) the value is a
\* sequence of one-character strings.  Ascii lists the characters in use in
\* code order: "%", the digits, A-Z, "_", a-z.
Ascii ==
  <<"%", "0", "1", "2", "3", "4", "5", "6", "7", "8", "9",
    "A", "B", "C", "D", "E", "F", "G", "H", "I", "J", "K", "L", "M",
    "N", "O", "P", "Q", "R", "S", "T", "U", "V", "W", "X", "Y", "Z",
    "_",
    "a", "b", "c", "d", "e", "f", "g", "h", "i", "j", "k", "l", "m",
    "n", "o", "p", "q", "r", "s", "t", "u", "v", "w", "x", "y", "z">>

Code(ch) == CHOOSE i \in 1..Len(Ascii) : Ascii[i] = ch

\* Position of "A" in Ascii and the distance from a capital to its small letter.
FirstCapital == Code("A")
CaseShift == Code("a") - Code("A")

\* LIKE folds the case of the 26 ASCII letters.
Fold(ch) ==
  IF Code(ch) >= FirstCapital /\ Code(ch) < FirstCapital + 26
    THEN Ascii[Code(ch) + CaseShift]
    ELSE ch

\* text LIKE pattern: "%" stands for any run of characters, "_" for any one
\* character, every other character for itself up to case.
RECURSIVE Like(_, _)
Like(text, pattern) ==
  IF pattern = <<>> THEN text = <<>>
  ELSE IF Head(pattern) = "%"
    THEN \/ Like(text, Tail(pattern))
         \/ text # <<>> /\ Like(Tail(text), pattern)
  ELSE IF Head(pattern) = "_"
    THEN text # <<>> /\ Like(Tail(text), Tail(pattern))
  ELSE /\ text # <<>>
       /\ Fold(Head(text)) = Fold(Head(pattern))
       /\ Like(Tail(text), Tail(pattern))

\* Binary collation: the order of ORDER BY on a text column.
RECURSIVE TextBefore(_, _)
TextBefore(a, b) ==
  IF b = <<>> THEN FALSE
  ELSE IF a = <<>> THEN TRUE
  ELSE IF Head(a) = Head(b) THEN TextBefore(Tail(a), Tail(b))
  ELSE Code(Head(a)) < Code(Head(b))

\* ORDER BY kind, key
RowBefore(r, s) ==
  \/ TextBefore(r.kind, s.kind)
  \/ r.kind = s.kind /\ TextBefore(r.key, s.key)

\* The first `limit` rows in ORDER BY order; a negative LIMIT is no limit.
RECURSIVE takeOrdered(_, _)
takeOrdered(rows, limit) ==
  IF rows = {} \/ limit = 0 THEN <<>>
  ELSE LET first == CHOOSE r \in rows : \A s \in rows : s = r \/ RowBefore(r, s)
       IN <<first>> \o takeOrdered(rows \ {first}, limit - 1)

\* `opts.limit || 50`
DefaultLimit == 50

\* opts.kind, opts.q and opts.limit left out are <<>>, <<>> and 0: the code
\* tests all three for truthiness, which an empty string and 0 fail as well.
findNodesLimit(limit) == IF limit = 0 THEN DefaultLimit ELSE limit

findNodes(gr, kind, q, limit) ==
  LET pattern == <<"%">> \o q \o <<"%">>
      rows == {n \in gr.nodes :
                 /\ kind # <<>> => n.kind = kind
                 /\ q # <<>> => (Like(n.key, pattern) \/ Like(n.label, pattern))}
  IN takeOrdered(rows, findNodesLimit(limit))

-----------------------------------------------------------------------------
(* SpecFind: findNodes called on a populated graph *)

KindClass == <<"c", "l", "a", "s", "s">>
KindMethod == <<"m", "e", "t", "h", "o", "d">>
KindModule == <<"m", "o", "d", "u", "l", "e">>

\* Three named nodes, the module with a label of its own.
NamedNodes ==
  { NodeRow(1, KGNode(KindClass, <<"U", "s", "e", "r">>)),
    NodeRow(2, KGNode(KindClass, <<"P", "o", "s", "t">>)),
    NodeRow(3, [KGNode(KindModule, <<"A", "u", "t", "h">>)
                  EXCEPT !.label = <<"S", "i", "g", "n", "_", "i", "n">>]) }

Digit(d) == Ascii[Code("0") + d]

\* Method nodes k00, k01, ... : `count` of them, with ids after the named ones.
MethodNodes(count) ==
  { NodeRow(Cardinality(NamedNodes) + i,
            KGNode(KindMethod, <<"k", Digit((i - 1) \div 10), Digit((i - 1) % 10)>>)) :
      i \in 1..count }

FindGraph(count) ==
  [nodes |-> NamedNodes \cup MethodNodes(count), edges |-> {},
   nextNodeId |-> Cardinality(NamedNodes) + count + 1, nextEdgeId |-> 1]

FindKinds == {<<>>, KindClass, KindMethod}
FindQueries ==
  {<<>>, <<"u", "s">>, <<"S", "I", "G", "N">>, <<"k", "4">>, <<"_">>, <<"z">>}
FindLimits == {0, 1, 2, DefaultLimit, DefaultLimit + 1, -1}

InitFind ==
  /\ \E count \in {0, 1, DefaultLimit + 1} : g = FindGraph(count)
  /\ gq = NoCall
  /\ nodeCache = {}
  /\ built = NoBuild
  /\ IndexerUnused /\ ExtrasUnused

\* findNodes only reads the store, so a behaviour holds one call.
FindNodes(kind, q, limit) ==
  /\ gq = NoCall
  /\ gq' = [op |-> "findNodes", kind |-> kind, q |-> q, limit |-> limit,
            result |-> findNodes(g, kind, q, limit)]
  /\ UNCHANGED <<g, nodeCache, built>> /\ UNCHANGED <<ixvars, xvars>>

FindNext ==
  \E kind \in FindKinds, q \in FindQueries, limit \in FindLimits :
    FindNodes(kind, q, limit)

SpecFind == InitFind /\ [][FindNext]_vars

-----------------------------------------------------------------------------
(* Claims about findNodes, checked under SpecFind *)

\* q occurs in text as a substring, letters compared without case.
ContainsFolded(text, q) ==
  \E off \in 0..(Len(text) - Len(q)) :
    \A i \in 1..Len(q) : Fold(text[off + i]) = Fold(q[i])

\* C10: whatever limit is requested, findNodes returns at most a fixed
\* maximum number of nodes (the only number the store holds is its default,
\* DefaultLimit); every returned node has the requested kind when one is
\* given, and contains the query, case-insensitively, in its key or label when
\* one is given.
C10_CappedAndFiltered ==
  gq.op = "findNodes" =>
    /\ Len(gq.result) <= DefaultLimit
    /\ \A i \in 1..Len(gq.result) :
         /\ gq.kind # <<>> => gq.result[i].kind = gq.kind
         /\ gq.q # <<>> =>
              \/ ContainsFolded(gq.result[i].key, gq.q)
              \/ ContainsFolded(gq.result[i].label, gq.q)

\* The two halves of C10 taken apart, to tell which of them the store breaks.
C10_Capped == gq.op = "findNodes" => Len(gq.result) <= DefaultLimit

C10_KindFiltered ==
  gq.op = "findNodes" =>
    \A i \in 1..Len(gq.result) : gq.kind # <<>> => gq.result[i].kind = gq.kind

C10_SubstringFiltered ==
  gq.op = "findNodes" =>
    \A i \in 1..Len(gq.result) :
      gq.q # <<>> =>
        \/ ContainsFolded(gq.result[i].key, gq.q)
        \/ ContainsFolded(gq.result[i].label, gq.q)

-----------------------------------------------------------------------------
(* GraphBuilder *)

\* nodeCache, a Map from key to node id, as a set of <<key, id>> pairs with
\* one pair per key.  get() of a missing key is undefined, which the code
\* tests with `!id`: 0 here.
cacheGet(cache, key) ==
  IF \E e \in cache : e[1] = key
    THEN (CHOOSE e \in cache : e[1] = key)[2]
    ELSE 0

cacheSet(cache, key, id) == {e \in cache : e[1] # key} \cup {<<key, id>>}

\* A number as `${n}` writes it.
RECURSIVE Decimal(_)
Decimal(n) ==
  IF n < 10 THEN <<Digit(n)>> ELSE Decimal(n \div 10) \o <<Digit(n % 10)>>

\* `${filePath}:${line}`
Loc(filePath, line) == filePath \o <<":">> \o Decimal(line)

\* path.basename
basename(filePath) == <<filePath[Len(filePath)]>>

\* A symbol of a parse result.  parent stands for `symbol.parent_symbol ||
\* symbol.parent`; a field left out of the symbol is <<>>.
RubySymbol(name, type, parent, start_line, end_line) ==
  [name |-> name, type |-> type, parent |-> parent, method_type |-> "instance",
   superclass |-> <<>>, includes |-> <<>>, extends |-> <<>>,
   start_line |-> start_line, end_line |-> end_line, visibility |-> "public"]

buildSymbolKey(symbol) ==
  IF symbol.type = "method" /\ symbol.parent # <<>>
    THEN symbol.parent
           \o <<IF symbol.method_type = "class" THEN "." ELSE "#">>
           \o symbol.name
    ELSE symbol.name

\* The builder's state while it works: st.g is the store, st.cache nodeCache.
\* `nodeCache.get(name)`, and on a miss the upsert of a placeholder of the
\* given kind and metadata, cached under the name.
placeholderUnlessCached(st, kind, name, meta) ==
  IF cacheGet(st.cache, name) # 0 THEN st
  ELSE LET g1 == upsertNode(st.g, [KGNode(kind, name) EXCEPT
                                     !.label = name, !.meta_json = meta])
       IN [g |-> g1, cache |-> cacheSet(st.cache, name, NodeId(g1, kind, name))]

\* The edge the three create*Edge methods end with.
edgeToCached(st, kind, srcId, name, filePath, line) ==
  [st EXCEPT !.g = upsertEdge(@, [KGEdge(kind, srcId, cacheGet(st.cache, name))
                                    EXCEPT !.src_loc = Loc(filePath, line)])]

createInheritanceEdge(st, childId, superclass, filePath, line) ==
  edgeToCached(placeholderUnlessCached(st, "class", superclass, {<<"inferred", TRUE>>}),
               "inherits", childId, superclass, filePath, line)

createIncludeEdge(st, classId, moduleName, filePath, line) ==
  edgeToCached(placeholderUnlessCached(st, "module", moduleName, {<<"inferred", TRUE>>}),
               "includes", classId, moduleName, filePath, line)

createExtendEdge(st, classId, moduleName, filePath, line) ==
  edgeToCached(placeholderUnlessCached(st, "module", moduleName, {<<"inferred", TRUE>>}),
               "extends", classId, moduleName, filePath, line)

RECURSIVE createIncludeEdges(_, _, _, _, _)
createIncludeEdges(st, classId, modules, filePath, line) ==
  IF modules = <<>> THEN st
  ELSE createIncludeEdges(createIncludeEdge(st, classId, Head(modules), filePath, line),
                          classId, Tail(modules), filePath, line)

RECURSIVE createExtendEdges(_, _, _, _, _)
createExtendEdges(st, classId, modules, filePath, line) ==
  IF modules = <<>> THEN st
  ELSE createExtendEdges(createExtendEdge(st, classId, Head(modules), filePath, line),
                         classId, Tail(modules), filePath, line)

\* The metadata of a symbol node; the fixtures carry no signature and no
\* documentation, which JSON.stringify then leaves out.
symbolMeta(symbol) ==
  {<<"visibility", symbol.visibility>>} \cup
  (IF symbol.parent = <<>> THEN {} ELSE {<<"parent", symbol.parent>>})

processSymbol(st, symbol, fileNodeId, filePath) ==
  LET nodeKey == buildSymbolKey(symbol)
      g1 == upsertNode(st.g,
              [KGNode(symbol.type, nodeKey) EXCEPT
                 !.label = symbol.name, !.file_path = filePath,
                 !.start_line = symbol.start_line, !.end_line = symbol.end_line,
                 !.meta_json = symbolMeta(symbol)])
      symbolNodeId == NodeId(g1, symbol.type, nodeKey)
      cache1 == cacheSet(st.cache, nodeKey, symbolNodeId)
      g2 == upsertEdge(g1, [KGEdge("defines", fileNodeId, symbolNodeId) EXCEPT
                              !.src_loc = filePath,
                              !.dst_loc = Loc(filePath, symbol.start_line)])
      parentNodeId == cacheGet(cache1, symbol.parent)
      g3 == IF symbol.parent # <<>> /\ parentNodeId # 0
              THEN upsertEdge(g2, KGEdge("defines", parentNodeId, symbolNodeId))
              ELSE g2
      s3 == [g |-> g3, cache |-> cache1]
      s4 == IF symbol.superclass # <<>> /\ symbol.type = "class"
              THEN createInheritanceEdge(s3, symbolNodeId, symbol.superclass,
                                         filePath, symbol.start_line)
              ELSE s3
      s5 == createIncludeEdges(s4, symbolNodeId, symbol.includes,
                               filePath, symbol.start_line)
  IN createExtendEdges(s5, symbolNodeId, symbol.extends,
                       filePath, symbol.start_line)

RECURSIVE processSymbols(_, _, _, _)
processSymbols(st, symbols, fileNodeId, filePath) ==
  IF symbols = <<>> THEN st
  ELSE processSymbols(processSymbol(st, Head(symbols), fileNodeId, filePath),
                      Tail(symbols), fileNodeId, filePath)

\* toUpperCase of one character.
Upper(ch) ==
  IF Code(ch) >= FirstCapital + CaseShift /\ Code(ch) < FirstCapital + CaseShift + 26
    THEN Ascii[Code(ch) - CaseShift]
    ELSE ch

\* name.charAt(0).toUpperCase() + name.slice(1)
Capitalize(name) == <<Upper(Head(name))>> \o Tail(name)

\* <<>> is the null the method returns.
inferModelFromAssociation(assoc) ==
  IF assoc.name = <<>> \/ assoc.type = "" THEN <<>>
  ELSE IF assoc.type = "belongs_to" THEN Capitalize(assoc.name)
  ELSE IF assoc.type = "has_many"
    THEN Capitalize(IF assoc.name[Len(assoc.name)] = "s"
                      THEN SubSeq(assoc.name, 1, Len(assoc.name) - 1)
                      ELSE assoc.name)
  ELSE <<>>

\* One pass of the loop of processRailsAssociations; the three `continue`s
\* leave the state as it is.  The fixtures carry no options, foreign_key or
\* through.
processRailsAssociation(st, assoc) ==
  LET modelKey == IF assoc.class_name # <<>> THEN assoc.class_name
                  ELSE assoc.model_name
      modelNodeId == cacheGet(st.cache, modelKey)
      targetModel == IF assoc.target_model # <<>> THEN assoc.target_model
                     ELSE IF assoc.class_name # <<>> THEN assoc.class_name
                     ELSE inferModelFromAssociation(assoc)
      s1 == placeholderUnlessCached(st, "class", targetModel,
                                    {<<"inferred", TRUE>>, <<"model", TRUE>>})
  IN IF modelKey = <<>> \/ modelNodeId = 0 \/ targetModel = <<>> THEN st
     ELSE [s1 EXCEPT !.g = upsertEdge(@,
             [KGEdge(IF assoc.type = "" THEN "belongs_to" ELSE assoc.type,
                     modelNodeId, cacheGet(s1.cache, targetModel))
                EXCEPT !.meta_json = {<<"options", {}>>}])]

RECURSIVE processRailsAssociations(_, _)
processRailsAssociations(st, associations) ==
  IF associations = <<>> THEN st
  ELSE processRailsAssociations(processRailsAssociation(st, Head(associations)),
                                Tail(associations))

\* One pass of the loop of processDependencies; dep.path stands for
\* `dep.path || dep.name`.
processDependency(st, dep, fileNodeId, filePath) ==
  IF dep.type \notin {"require", "require_relative"} \/ dep.path = <<>> THEN st
  ELSE LET g1 == upsertNode(st.g, [KGNode("file", dep.path) EXCEPT
                                     !.label = basename(dep.path),
                                     !.meta_json = {<<"inferred", TRUE>>}])
       IN [st EXCEPT !.g = upsertEdge(g1,
             [KGEdge("requires", fileNodeId, NodeId(g1, "file", dep.path))
                EXCEPT !.src_loc = Loc(filePath, dep.line)])]

RECURSIVE processDependencies(_, _, _, _)
processDependencies(st, dependencies, fileNodeId, filePath) ==
  IF dependencies = <<>> THEN st
  ELSE processDependencies(processDependency(st, Head(dependencies), fileNodeId, filePath),
                           Tail(dependencies), fileNodeId, filePath)

\* No parse result of the fixtures carries a file_type, which JSON.stringify
\* then leaves out of the file node's metadata.
buildFromAST(st, filePath, parseResult) ==
  LET g1 == upsertNode(st.g, [KGNode("file", filePath) EXCEPT
                                !.label = basename(filePath),
                                !.file_path = filePath,
                                !.meta_json = {<<"line_count", parseResult.line_count>>}])
      fileNodeId == NodeId(g1, "file", filePath)
      s1 == processSymbols([st EXCEPT !.g = g1], parseResult.symbols,
                           fileNodeId, filePath)
      s2 == processRailsAssociations(s1, parseResult.associations)
  IN processDependencies(s2, parseResult.dependencies, fileNodeId, filePath)

-----------------------------------------------------------------------------
(* SpecBuilder: a GraphBuilder projecting parse results into the store *)

NameBase == <<"B", "a", "s", "e">>
NameChild == <<"C", "h", "i", "l", "d">>
NamePost == <<"P", "o", "s", "t">>
NameHelper == <<"H", "e", "l", "p", "e", "r">>

Files == {"child", "base", "post"}

FilePath(f) ==
  CASE f = "child" -> <<"app", "models", "child.rb">>
    [] f = "base"  -> <<"app", "models", "base.rb">>
    [] f = "post"  -> <<"app", "models", "post.rb">>

Association(name, type, model) ==
  [name |-> name, type |-> type, class_name |-> <<>>, model_name |-> model,
   target_model |-> <<>>]

\* child.rb: class Child < Base, extending Helper, belongs_to :base, and a
\* require_relative of base.
\* base.rb: class Base including Helper, with a method save and has_many :posts.
\* post.rb: class Post < Base as the regex parser reports it, the superclass
\* in parent_symbol and no superclass field, with a method publish.
FileSymbols(f) ==
  CASE f = "child" ->
         <<[RubySymbol(NameChild, "class", <<>>, 1, 3) EXCEPT
              !.superclass = NameBase, !.extends = <<NameHelper>>]>>
    [] f = "base" ->
         <<[RubySymbol(NameBase, "class", <<>>, 1, 9) EXCEPT
              !.includes = <<NameHelper>>],
           RubySymbol(<<"s", "a", "v", "e">>, "method", NameBase, 2, 4)>>
    [] f = "post" ->
         <<RubySymbol(NamePost, "class", NameBase, 1, 5),
           RubySymbol(<<"p", "u", "b", "l", "i", "s", "h">>, "method", NamePost, 2, 4)>>

FileAssociations(f) ==
  CASE f = "child" -> <<Association(<<"b", "a", "s", "e">>, "belongs_to", NameChild)>>
    [] f = "base"  -> <<Association(<<"p", "o", "s", "t", "s">>, "has_many", NameBase)>>
    [] f = "post"  -> <<>>

FileDependencies(f) ==
  IF f = "child"
    THEN <<[type |-> "require_relative", path |-> <<"base">>, line |-> 1]>>
    ELSE <<>>

Reverse(seq) == [i \in 1..Len(seq) |-> seq[Len(seq) + 1 - i]]

\* The parse result of a file, its symbols in source order or in the
\* opposite order.
ParseResult(f, reversed) ==
  [symbols |-> IF reversed THEN Reverse(FileSymbols(f)) ELSE FileSymbols(f),
   associations |-> FileAssociations(f),
   dependencies |-> FileDependencies(f),
   line_count |-> FileSymbols(f)[1].end_line]

BuilderInit ==
  /\ g = EmptyGraph
  /\ gq = NoCall
  /\ nodeCache = {}
  /\ built = NoBuild
  /\ IndexerUnused /\ ExtrasUnused

\* built keeps, for the claims, the file and parse result of the last call,
\* the store before it, and whether the call before it, made by the same
\* builder, had the same file and the same parse result.
BuildFromAST(f, reversed) ==
  /\ reversed => Len(FileSymbols(f)) > 1
  /\ LET st == buildFromAST([g |-> g, cache |-> nodeCache], FilePath(f),
                            ParseResult(f, reversed))
     IN /\ g' = st.g
        /\ nodeCache' = st.cache
  /\ built' = [file |-> f, reversed |-> reversed, before |-> g,
               repeat |-> built.file = f /\ built.reversed = reversed]
  /\ UNCHANGED gq /\ UNCHANGED <<ixvars, xvars>>

\* new GraphBuilder(db) over the same store: a restart of the server.
NewBuilder ==
  /\ nodeCache # {}
  /\ nodeCache' = {}
  /\ built' = NoBuild
  /\ UNCHANGED <<g, gq>> /\ UNCHANGED <<ixvars, xvars>>

BuilderNext ==
  \/ \E f \in Files, reversed \in BOOLEAN : BuildFromAST(f, reversed)
  \/ NewBuilder

SpecBuilder == BuilderInit /\ [][BuilderNext]_vars

-----------------------------------------------------------------------------
(* Claims about the graph builder, checked under SpecBuilder *)

\* C3: when a builder projects a file a second time, right after it projected
\* the same file with the same parse result, the graph's nodes and edges are
\* what they were after the first projection, whatever the order of the
\* symbols in the parse result.
C3_RepeatLeavesGraph ==
  (built.file # "none" /\ built.repeat) =>
    /\ g.nodes = built.before.nodes
    /\ g.edges = built.before.edges

BaseNodes(gr) == {n \in gr.nodes : n.kind = "class" /\ n.key = NameBase}

\* The inherits edges leaving class Child.
InheritsFromChild(gr) ==
  {e \in gr.edges :
     /\ e.kind = "inherits"
     /\ \E c \in gr.nodes : c.kind = "class" /\ c.key = NameChild /\ c.id = e.src_id}

BaseDefinition ==
  CHOOSE sym \in {FileSymbols("base")[i] : i \in 1..Len(FileSymbols("base"))} :
    sym.type = "class" /\ sym.name = NameBase

\* C6: once class Child < Base has been projected, exactly one class node
\* keyed Base exists and the inherits edge of Child ends at it; every later
\* projection keeps that node's id and the edge; and when the file defining
\* Base is projected after Child's, the node carries that file's path and the
\* definition's line range and is not flagged inferred.
C6_PlaceholderFilledIn ==
  /\ InheritsFromChild(g) # {} =>
       /\ Cardinality(BaseNodes(g)) = 1
       /\ \A e \in InheritsFromChild(g) : \A n \in BaseNodes(g) : e.dst_id = n.id
  /\ built.file # "none" =>
       /\ \A b \in BaseNodes(built.before) : \A n \in BaseNodes(g) : n.id = b.id
       /\ \A e \in InheritsFromChild(built.before) :
            \E f \in InheritsFromChild(g) :
              f.id = e.id /\ f.src_id = e.src_id /\ f.dst_id = e.dst_id
  /\ (built.file = "base" /\ InheritsFromChild(built.before) # {}) =>
       \A n \in BaseNodes(g) :
         /\ n.file_path = FilePath("base")
         /\ n.start_line = BaseDefinition.start_line
         /\ n.end_line = BaseDefinition.end_line
         /\ <<"inferred", TRUE>> \notin n.meta_json

\* base.rb has just been projected over a graph in which Child's inherits
\* edge ended at a placeholder for Base: an inferred node with no file.
C6_Witness ==
  /\ built.file = "base"
  /\ InheritsFromChild(built.before) # {}
  /\ \E b \in BaseNodes(built.before) :
       /\ b.file_path = <<>>
       /\ <<"inferred", TRUE>> \in b.meta_json
       /\ \E n \in BaseNodes(g) : n.id = b.id /\ n.file_path = FilePath("base")

-----------------------------------------------------------------------------
(* IndexDatabase: metadata and the schema store *)

\* INSERT INTO metadata ... ON CONFLICT(key) DO UPDATE SET value
setMetadata(m, key, value) == [m EXCEPT ![key] = value]

\* The repository paths a database can be asked about.
RepoPaths == {"repo", "other"}

\* IndexDatabase.needsReindex: a key that was never set reads as undefined.
needsReindex(m, d, repoPath) ==
  \/ m.repo_path = "" \/ m.repo_path # repoPath
  \/ m.last_indexed = -1
  \/ \A p \in Paths : d.files[p] = NoRow

\* DELETE FROM schema_foreign_keys; schema_indexes; schema_columns;
\* schema_tables.  AUTOINCREMENT keeps counting.
clearSchema(s) ==
  [s EXCEPT !.tables = {}, !.columns = {}, !.indexes = {}, !.foreign_keys = {}]

SchemaTableByName(s, name) == {t \in s.tables : t.name = name}

\* INSERT INTO schema_tables ... ON CONFLICT(name) DO UPDATE SET primary_key
\* ... RETURNING id
upsertSchemaTable(s, name, primaryKey) ==
  LET old == SchemaTableByName(s, name)
  IN IF old = {}
       THEN [s EXCEPT !.tables = @ \cup {[id |-> s.nextTableId, name |-> name,
                                          primary_key |-> primaryKey]},
                      !.nextTableId = @ + 1]
       ELSE [s EXCEPT !.tables = (@ \ old) \cup
                        {[t EXCEPT !.primary_key = primaryKey] : t \in old}]

SchemaTableId(s, name) == (CHOOSE t \in s.tables : t.name = name).id

\* INSERT INTO schema_columns ... ON CONFLICT(table_id, name) DO UPDATE.  The
\* pair (table_id, name) identifies the row.
insertSchemaColumn(s, tableId, column) ==
  [s EXCEPT !.columns =
     {c \in @ : ~(c.table_id = tableId /\ c.name = column.name)} \cup
     {[table_id |-> tableId, name |-> column.name, column_type |-> column.type,
       nullable |-> column.nullable, column_limit |-> column.limit]}]

\* Plain INSERTs: the same index or foreign key stored twice is two rows, which
\* the count field tells apart here.
insertSchemaIndex(s, tableId, index) ==
  LET row == [table_id |-> tableId, name |-> index.name,
              columns |-> index.columns, unique_index |-> index.unique]
  IN [s EXCEPT !.indexes = @ \cup
        {[row |-> row,
          count |-> Cardinality({i \in s.indexes : i.row = row}) + 1]}]

insertSchemaForeignKey(s, fk) ==
  LET row == [from_table |-> fk.from_table, from_column |-> fk.from_column,
              to_table |-> fk.to_table, to_column |-> fk.to_column]
  IN [s EXCEPT !.foreign_keys = @ \cup
        {[row |-> row,
          count |-> Cardinality({f \in s.foreign_keys : f.row = row}) + 1]}]

-----------------------------------------------------------------------------
(* A unit of work as the sequence of statements it sends to the connection *)

\* What indexFile writes for a content version, in program order.  The first
\* indexer deletes the file's symbols after the upsert and stores no
\* associations; the second never deletes.
fileWrites(c, t, legacy) ==
  << [op |-> "upsertFile", hash |-> Sha256(c), t |-> t, lines |-> LineCount(c)] >>
  \o (IF legacy THEN << [op |-> "deleteSymbolsForFile"] >> ELSE << >>)
  \o [i \in 1..Len(ParseSymbols(c)) |->
        [op |-> "insertSymbol", sym |-> ParseSymbols(c)[i]]]
  \o (IF legacy THEN << >>
      ELSE [i \in 1..Len(AssociationSymbols(c)) |->
              [op |-> "insertSymbol", sym |-> AssociationSymbols(c)[i]]])

applyFileWrite(d, p, w) ==
  CASE w.op = "upsertFile" ->
         upsertFile(d, p, w.hash, w.t, detectFileType(p), w.lines)
    [] w.op = "deleteSymbolsForFile" -> deleteSymbolsForFile(d, FileId(d, p))
    [] w.op = "insertSymbol" -> insertSymbol(d, FileId(d, p), w.sym)

RECURSIVE applyFileWrites(_, _, _)
applyFileWrites(d, p, ws) ==
  IF ws = << >> THEN d
  ELSE applyFileWrites(applyFileWrite(d, p, Head(ws)), p, Tail(ws))

\* ROLLBACK, and what SQLite's journal does for a transaction left open by a
\* stopped process: the store is as it was at BEGIN, sqlite_sequence included.
rollback(atBegin, d) == atBegin

\* No transaction is open: every statement that ran is already committed.
autocommit(atBegin, d) == d

\* CodeIndexer.indexFile of the second indexer when its failAt-th statement
\* throws or the process stops there (failAt = 0: neither happens).  There is
\* no BEGIN, so the statements before the failing one stay.
indexFileFailing(d, p, file, useNativeParser, t, failAt) ==
  LET r  == indexFile(d, p, file, useNativeParser, t)
      ws == fileWrites(file.content, t, FALSE)
  IN IF r.outcome # "indexed" \/ failAt = 0 THEN r
     ELSE [db |-> autocommit(d, applyFileWrites(d, p, SubSeq(ws, 1, failAt - 1))),
           outcome |-> "threw"]

\* CodeIndexer.indexFile of the first indexer in the same situation: the
\* statements run between BEGIN and COMMIT, the catch block rolls back and
\* rethrows, and the outer catch logs.
legacyIndexFileFailing(d, p, file, t, failAt) ==
  LET r  == legacyIndexFile(d, p, file, t)
      ws == fileWrites(file.content, t, TRUE)
  IN IF r.outcome # "indexed" \/ failAt = 0 THEN r
     ELSE [db |-> rollback(d, applyFileWrites(d, p, SubSeq(ws, 1, failAt - 1))),
           outcome |-> "logged"]

-----------------------------------------------------------------------------
(* db/schema.rb as the schema parser reports it, and indexSchema *)

TUsers == <<"u", "s", "e", "r", "s">>
TPosts == <<"p", "o", "s", "t", "s">>
CId == <<"i", "d">>
CEmail == <<"e", "m", "a", "i", "l">>
CUserId == <<"u", "s", "e", "r", "_", "i", "d">>
IUsersEmail == <<"i", "x", "_", "u", "s", "e", "r", "s">>
IPostsUser == <<"i", "x", "_", "p", "o", "s", "t", "s">>

SchemaColumn(name, type) ==
  [name |-> name, type |-> type, nullable |-> TRUE, limit |-> 0]

SchemaIndex(name, columns, unique) ==
  [name |-> name, columns |-> columns, unique |-> unique]

UsersTable ==
  [name |-> TUsers, primary_key |-> CId,
   columns |-> << SchemaColumn(CEmail, "string") >>,
   indexes |-> << SchemaIndex(IUsersEmail, << CEmail >>, TRUE) >>]

PostsTable ==
  [name |-> TPosts, primary_key |-> CId,
   columns |-> << SchemaColumn(CUserId, "bigint") >>,
   indexes |-> << SchemaIndex(IPostsUser, << CUserId >>, FALSE) >>]

\* The content versions of db/schema.rb: version 1 declares users, version 2
\* declares users and posts with a foreign key between them.
SchemaVersions == {1, 2}

SchemaData(v) ==
  IF v = 1
    THEN [tables |-> << UsersTable >>, foreign_keys |-> << >>, version |-> 1]
    ELSE [tables |-> << UsersTable, PostsTable >>,
          foreign_keys |-> << [from_table |-> TPosts, from_column |-> CUserId,
                               to_table |-> TUsers, to_column |-> CId] >>,
          version |-> v]

tableWrites(table) ==
  << [op |-> "upsertSchemaTable", name |-> table.name,
      primary_key |-> table.primary_key] >>
  \o [i \in 1..Len(table.columns) |->
        [op |-> "insertSchemaColumn", table |-> table.name,
         column |-> table.columns[i]]]
  \o [i \in 1..Len(table.indexes) |->
        [op |-> "insertSchemaIndex", table |-> table.name,
         index |-> table.indexes[i]]]

RECURSIVE tablesWrites(_)
tablesWrites(tables) ==
  IF tables = << >> THEN << >>
  ELSE tableWrites(Head(tables)) \o tablesWrites(Tail(tables))

\* What indexSchema writes for a parse result, in program order.
schemaWrites(data) ==
  << [op |-> "clearSchema"] >>
  \o tablesWrites(data.tables)
  \o [i \in 1..Len(data.foreign_keys) |->
        [op |-> "insertSchemaForeignKey", fk |-> data.foreign_keys[i]]]
  \o (IF data.version # 0
        THEN << [op |-> "setMetadata", version |-> data.version] >>
        ELSE << >>)

\* st holds the schema tables and the metadata table.
applySchemaWrite(st, w) ==
  CASE w.op = "clearSchema" -> [st EXCEPT !.sch = clearSchema(@)]
    [] w.op = "upsertSchemaTable" ->
         [st EXCEPT !.sch = upsertSchemaTable(@, w.name, w.primary_key)]
    [] w.op = "insertSchemaColumn" ->
         [st EXCEPT !.sch = insertSchemaColumn(@, SchemaTableId(@, w.table),
                                               w.column)]
    [] w.op = "insertSchemaIndex" ->
         [st EXCEPT !.sch = insertSchemaIndex(@, SchemaTableId(@, w.table),
                                              w.index)]
    [] w.op = "insertSchemaForeignKey" ->
         [st EXCEPT !.sch = insertSchemaForeignKey(@, w.fk)]
    [] w.op = "setMetadata" ->
         [st EXCEPT !.metadata = setMetadata(@, "schema_version", w.version)]

RECURSIVE applySchemaWrites(_, _)
applySchemaWrites(st, ws) ==
  IF ws = << >> THEN st
  ELSE applySchemaWrites(applySchemaWrite(st, Head(ws)), Tail(ws))

\* CodeIndexer.indexSchema.  v is the content version of db/schema.rb (0: the
\* file is absent and nothing is touched); parseFails: parseFile throws, before
\* anything is written; failAt: the failAt-th statement throws or the process
\* stops there (0: neither).  No transaction is opened.
indexSchema(st, v, parseFails, failAt) ==
  IF v = 0 THEN [st |-> st, outcome |-> "absent"]
  ELSE IF parseFails THEN [st |-> st, outcome |-> "threw"]
  ELSE
    LET ws == schemaWrites(SchemaData(v))
    IN IF failAt = 0
         THEN [st |-> applySchemaWrites(st, ws), outcome |-> "stored"]
         ELSE [st |-> applySchemaWrites(st, SubSeq(ws, 1, failAt - 1)),
               outcome |-> "threw"]

-----------------------------------------------------------------------------
(* SpecRun: reindex() runs in which statements fail and the process stops *)

MaxTableId == 3
MaxRuns == 2
MaxFaults == 2

NoRun == [success |-> "running", enumerated |-> {}, stored |-> {}, failed |-> {},
          filesProcessed |-> 0, filesIndexed |-> 0, filesFailed |-> 0]

InitRun ==
  /\ variant \in {"legacy", "regex", "native"}
  /\ now = 0
  /\ disk \in [Paths -> [content : {1, 2}, mtime : {0}]]
  /\ db = [files |-> [p \in Paths |-> NoRow], symbols |-> {},
           nextFileId |-> 1, nextSymId |-> 1]
  /\ run = Idle
  /\ last = NoLast
  /\ base = NoBase
  /\ GraphUnused
  /\ ExtrasUnused

\* The environment writes db/schema.rb or removes it.
WriteSchemaFile(v) ==
  /\ run = Idle
  /\ v # schemaFile
  /\ schemaFile' = v
  /\ UNCHANGED <<ixvars, gvars, metadata, sch, report, runs, faults, batch, svars, sx>>

\* reindex(paths, full) up to the file loop.  The first indexer validates the
\* environment and returns success: false when it is not usable; it ignores
\* `full` and writes no metadata.
RunStart(full, envValid) ==
  /\ run = Idle
  /\ runs < MaxRuns
  /\ runs' = runs + 1
  /\ IF variant = "legacy" /\ ~envValid
       THEN /\ report' = [success |-> "false"]
            /\ UNCHANGED <<db, run, metadata>>
       ELSE /\ db' = IF full /\ variant # "legacy" THEN clearAll(db) ELSE db
            /\ metadata' = IF variant = "legacy" THEN metadata
                           ELSE setMetadata(setMetadata(metadata, "repo_path", "repo"),
                                            "index_started_at", now)
            /\ run' = [kind |-> "files", todo |-> Paths, full |-> full]
            /\ report' = [NoRun EXCEPT !.enumerated = Paths,
                                       !.filesProcessed = Cardinality(Paths)]
  /\ last' = NoLast
  /\ UNCHANGED <<variant, now, disk, base, schemaFile, sch, faults>>
  /\ UNCHANGED <<gvars, batch, svars, sx>>

\* An indexFile whose error is not caught: reindex() rejects with it.
fileSettledNoCatch(rep, p, c, outcome) ==
  IF outcome = "threw"
    THEN [rep EXCEPT !.success = "rejected", !.failed = @ \cup {p}]
    ELSE [rep EXCEPT !.filesIndexed = @ + 1,
                     !.stored = IF outcome = "indexed" THEN @ \cup {<<p, c>>} ELSE @,
                     !.failed = IF outcome = "logged" THEN @ \cup {p} ELSE @]

\* try { await indexFile(file); filesIndexed++ } catch { filesFailed++ }
\* stored: the files this run derived and wrote completely, with the content
\* version they had.  failed: the files whose indexFile met an error, thrown
\* to reindex() or caught and logged inside indexFile.
fileSettled(rep, p, c, outcome) ==
  IF outcome = "threw"
    THEN [rep EXCEPT !.filesFailed = @ + 1, !.failed = @ \cup {p}]
    ELSE [rep EXCEPT !.filesIndexed = @ + 1,
                     !.stored = IF outcome = "indexed" THEN @ \cup {<<p, c>>} ELSE @,
                     !.failed = IF outcome = "logged" THEN @ \cup {p} ELSE @]

\* One file of the loop; its failAt-th statement throws (stop = FALSE) or the
\* process stops before it (stop = TRUE).
RunFile(p, failAt, stop) ==
  /\ run.kind = "files"
  /\ p \in run.todo
  /\ HasRoom(disk[p].content)
  /\ failAt \in 0..Len(fileWrites(disk[p].content, now, variant = "legacy"))
  /\ stop => failAt > 0
  /\ failAt > 0 => faults < MaxFaults
  /\ faults' = IF failAt > 0 THEN faults + 1 ELSE faults
  /\ LET r == IF variant = "legacy"
                THEN legacyIndexFileFailing(db, p, disk[p], now, failAt)
                ELSE indexFileFailing(db, p, disk[p], variant = "native", now,
                                      failAt)
     IN /\ failAt > 0 => r.outcome \in {"threw", "logged"}
        /\ db' = r.db
        /\ last' = [step |-> "file", path |-> p, failed |-> failAt > 0,
                    stopped |-> stop, before |-> db, outcome |-> r.outcome,
                    full |-> run.full]
        /\ IF stop
             THEN /\ run' = Idle
                  /\ report' = NoReport
             ELSE /\ report' = fileSettled(report, p, disk[p].content, r.outcome)
                  /\ run' = IF report'.success = "running"
                              THEN [run EXCEPT !.todo = @ \ {p}]
                              ELSE Idle
  /\ UNCHANGED <<variant, now, disk, base, metadata, schemaFile, sch, runs>>
  /\ UNCHANGED <<gvars, batch, svars, sx>>

\* try { await this.indexSchema() } catch { console.warn(...) }, after the
\* file loop of the second indexer.
RunSchema(parseFails, failAt, stop) ==
  /\ variant # "legacy"
  /\ run.kind = "files"
  /\ run.todo = {}
  /\ parseFails => (schemaFile # 0 /\ failAt = 0)
  /\ failAt > 0 => /\ schemaFile # 0
                   /\ failAt <= Len(schemaWrites(SchemaData(schemaFile)))
  /\ stop => failAt > 0
  /\ (parseFails \/ failAt > 0) => faults < MaxFaults
  /\ faults' = IF parseFails \/ failAt > 0 THEN faults + 1 ELSE faults
  /\ schemaFile # 0 =>
       sch.nextTableId + Len(SchemaData(schemaFile).tables) <= MaxTableId + 1
  /\ LET r == indexSchema([sch |-> sch, metadata |-> metadata], schemaFile,
                          parseFails, failAt)
     IN /\ sch' = r.st.sch
        /\ metadata' = r.st.metadata
        /\ last' = [step |-> "schema", version |-> schemaFile,
                    failed |-> r.outcome = "threw", stopped |-> stop,
                    before |-> sch, outcome |-> r.outcome]
  /\ IF stop
       THEN /\ run' = Idle
            /\ report' = NoReport
       ELSE /\ run' = [run EXCEPT !.kind = "report"]
            /\ UNCHANGED report
  /\ UNCHANGED <<variant, now, disk, db, base, schemaFile, runs>>
  /\ UNCHANGED <<gvars, batch, svars, sx>>

\* The closing metadata writes of the second indexer, and the report.
RunFinish ==
  /\ \/ variant = "legacy" /\ run.kind = "files" /\ run.todo = {}
     \/ run.kind = "report"
  /\ metadata' = IF variant = "legacy" THEN metadata
                 ELSE setMetadata(setMetadata(metadata, "last_indexed", now),
                                  "last_index_file_count", report.filesIndexed)
  /\ report' = [report EXCEPT !.success = "true"]
  /\ run' = Idle
  /\ UNCHANGED <<variant, now, disk, db, last, base, schemaFile, sch, runs, faults>>
  /\ UNCHANGED <<gvars, batch, svars, sx>>

RunNext ==
  \/ \E v \in {0} \cup SchemaVersions : WriteSchemaFile(v)
  \/ \E full \in BOOLEAN, envValid \in BOOLEAN : RunStart(full, envValid)
  \/ \E p \in Paths, failAt \in 0..4, stop \in BOOLEAN : RunFile(p, failAt, stop)
  \/ \E parseFails \in BOOLEAN, failAt \in 0..9, stop \in BOOLEAN :
       RunSchema(parseFails, failAt, stop)
  \/ RunFinish

SpecRun == InitRun /\ [][RunNext]_vars

\* C11: when a write fails or the process stops inside a file's unit of work,
\* the file row (fingerprint included) and the file's symbol rows are exactly
\* those from before the attempt.
C11_FailedUnitRolledBack ==
  (last # NoLast /\ last.step = "file" /\ last.failed) =>
    /\ db.files[last.path] = last.before.files[last.path]
    /\ \A id \in {db.files[last.path].id, last.before.files[last.path].id} :
         SymbolsOf(db.symbols, id) = SymbolsOf(last.before.symbols, id)

\* C14: a failure while one file is indexed, or while the schema is parsed or
\* stored, does not end the run: reindex() does not reject, every enumerated
\* file is settled by the time it returns, what the run stored for the other
\* files is still there, and the report says success.
C14_FailureNeverAborts ==
  (report # NoReport /\ report.success # "false") =>
    /\ report.success \in {"running", "true"}
    /\ run = Idle =>
         /\ report.success = "true"
         /\ report.filesIndexed + report.filesFailed = report.filesProcessed
         /\ report.filesProcessed = Cardinality(report.enumerated)
    /\ \A pc \in report.stored :
         LET row    == db.files[pc[1]]
             parsed == StoredParse(pc[2])
         IN /\ row # NoRow
            /\ row.hash = Sha256(pc[2])
            /\ \A i \in 1..Len(parsed) :
                 \E sym \in SymbolsOf(db.symbols, row.id) :
                   sym.name = parsed[i].name /\ sym.type = parsed[i].type

\* A run of the second indexer has returned: one file failed, the other was
\* stored, and storing the schema failed after the store was cleared.
C14_Witness ==
  /\ run = Idle
  /\ report # NoReport /\ report.success = "true"
  /\ report.filesFailed = 1
  /\ report.stored # {}
  /\ last # NoLast /\ last.step = "schema" /\ last.failed /\ sch.tables # {}

\* What the schema store holds, row ids left aside: a re-parse gives the rows
\* new ids.
SchemaTableName(s, id) == (CHOOSE t \in s.tables : t.id = id).name

SchemaContent(s) ==
  [tables       |-> {<<t.name, t.primary_key>> : t \in s.tables},
   columns      |-> {<<SchemaTableName(s, c.table_id), c.name, c.column_type,
                       c.nullable, c.column_limit>> : c \in s.columns},
   indexes      |-> {<<SchemaTableName(s, i.row.table_id), i.row.name,
                       i.row.columns, i.row.unique_index, i.count>> :
                       i \in s.indexes},
   foreign_keys |-> {<<f.row, f.count>> : f \in s.foreign_keys}]

\* The content a complete indexSchema leaves for version v of db/schema.rb.
ParsedContent(v) ==
  SchemaContent(applySchemaWrites([sch |-> EmptySchema, metadata |-> NoMeta],
                                  schemaWrites(SchemaData(v))).sch)

\* C15: once indexSchema has returned or failed on an existing db/schema.rb,
\* the schema store holds either exactly the rows of the new parse result or
\* exactly the rows it held before the call.
C15_SchemaReplacedAtomically ==
  (last # NoLast /\ last.step = "schema" /\ last.outcome # "absent") =>
    \/ SchemaContent(sch) = ParsedContent(last.version)
    \/ SchemaContent(sch) = SchemaContent(last.before)

\* C16: when reindex(paths, true) starts on its files, nothing an earlier run
\* wrote is left: no file row, no symbol, no schema table, column, index or
\* foreign key.
C16_FullReindexClearsFirst ==
  (run.kind = "files" /\ run.full /\ run.todo = Paths) =>
    /\ \A p \in Paths : db.files[p] = NoRow
    /\ db.symbols = {}
    /\ sch.tables = {} /\ sch.columns = {}
    /\ sch.indexes = {} /\ sch.foreign_keys = {}

-----------------------------------------------------------------------------
(* SpecBatch: batched dispatch on the single JavaScript thread *)

MaxFiles == 11
batchSize == 10
DefaultConcurrency == 5

Ceilings == {1, 2, DefaultConcurrency}

Min(a, b) == IF a < b THEN a ELSE b

\* files.slice(i, i + ceiling), as the 1-based positions of its files.
slice(i, ceiling, n) == (i + 1)..Min(i + ceiling, n)

\* The batches dispatched so far cover the positions 1..next.
dispatched(b) == 1..Min(b.next, b.n)

\* A resolved Promise.all on the first promise to settle, in place of all.
firstSettled(b) ==
  dispatched(b) = {} \/ \E j \in dispatched(b) : b.pc[j] = "settled"

\* await Promise.all(promises): every promise of the batch has settled.  Each
\* promise catches its own error, so none rejects.
allSettled(b) == \A j \in dispatched(b) : b.pc[j] = "settled"

\* A task that also gave up the thread between BEGIN and COMMIT.
awaitsInTransaction(pc) == pc \in {"parsing", "begun", "written"}

\* Where a task gives up the thread: indexFile awaits parser.parseFile and
\* nothing else; the database calls are synchronous.
awaits(pc) == pc = "parsing"

\* The thread after task j has moved to pc: free when the task awaits or has
\* returned, otherwise still running j.
thread(j, pc) == IF awaits(pc) \/ pc = "settled" THEN 0 ELSE j

NoStmt == [task |-> 0, sql |-> "none", open |-> {}]

NewBatch(op, n, ceiling) ==
  [op |-> op, n |-> n, ceiling |-> ceiling, next |-> 0,
   pc |-> [j \in 1..n |-> "pending"], running |-> 0, open |-> {},
   stmt |-> NoStmt]

InitBatch ==
  /\ batch = NoBatch
  /\ metadata = NoMeta
  /\ schemaFile = 0
  /\ sch = EmptySchema
  /\ report = NoReport
  /\ runs = 0
  /\ faults = 0
  /\ fts = {}
  /\ sq = NoCall
  /\ sx = NoText
  /\ IndexerUnused
  /\ GraphUnused

\* RubyParser.parseFiles(filePaths, concurrency)
StartParseFiles(n, ceiling) ==
  /\ batch = NoBatch
  /\ batch' = NewBatch("parseFiles", n, ceiling)
  /\ UNCHANGED <<ixvars, gvars, metadata, schemaFile, sch, report, runs, faults, svars, sx>>

\* reindex() of the first indexer, from its batch loop on
StartBatchedReindex(n) ==
  /\ batch = NoBatch
  /\ batch' = NewBatch("reindex", n, batchSize)
  /\ UNCHANGED <<ixvars, gvars, metadata, schemaFile, sch, report, runs, faults, svars, sx>>

\* One turn of the for loop: batch.map(...) calls the async function for every
\* file of the slice, each of which runs to its first await.  parseFile spawns
\* the external parser at once; indexFile returns before parsing for the files
\* whose stored hash is equal (skipped).
DispatchBatch(skipped) ==
  /\ batch # NoBatch
  /\ batch.running = 0
  /\ batch.next < batch.n
  /\ allSettled(batch)
  /\ skipped \subseteq slice(batch.next, batch.ceiling, batch.n)
  /\ batch.op = "parseFiles" => skipped = {}
  /\ batch' = [batch EXCEPT
       !.next = @ + batch.ceiling,
       !.pc = [j \in 1..batch.n |->
                 IF j \in skipped THEN "settled"
                 ELSE IF j \in slice(batch.next, batch.ceiling, batch.n)
                   THEN "parsing" ELSE @[j]]]
  /\ UNCHANGED <<ixvars, gvars, metadata, schemaFile, sch, report, runs, faults, svars, sx>>

\* The external parser of task j exits and the task goes on when the thread is
\* free.  parseFiles records the result or the error.  indexFile returns on a
\* parse error and otherwise issues BEGIN.
ParseSettles(j, parsed) ==
  /\ batch # NoBatch
  /\ batch.running = 0
  /\ j \in 1..batch.n
  /\ batch.pc[j] = "parsing"
  /\ LET pc == IF batch.op = "reindex" /\ parsed THEN "begun" ELSE "settled"
     IN batch' = [batch EXCEPT
          !.pc[j] = pc,
          !.running = thread(j, pc),
          !.open = IF pc = "begun" THEN @ \cup {j} ELSE @,
          !.stmt = IF pc = "begun"
                     THEN [task |-> j, sql |-> "BEGIN", open |-> batch.open]
                     ELSE @]
  /\ UNCHANGED <<ixvars, gvars, metadata, schemaFile, sch, report, runs, faults, svars, sx>>

\* upsertFile, deleteSymbolsForFile and the insertSymbol calls of task j; when
\* one throws the catch block issues ROLLBACK.
TaskWrites(j, fails) ==
  /\ batch # NoBatch
  /\ batch.running \in {0, j}
  /\ j \in 1..batch.n
  /\ batch.pc[j] = "begun"
  /\ LET pc == IF fails THEN "settled" ELSE "written"
     IN batch' = [batch EXCEPT
          !.pc[j] = pc,
          !.running = thread(j, pc),
          !.open = IF fails THEN @ \ {j} ELSE @,
          !.stmt = [task |-> j, sql |-> IF fails THEN "ROLLBACK" ELSE "INSERT",
                    open |-> batch.open]]
  /\ UNCHANGED <<ixvars, gvars, metadata, schemaFile, sch, report, runs, faults, svars, sx>>

TaskCommits(j) ==
  /\ batch # NoBatch
  /\ batch.running \in {0, j}
  /\ j \in 1..batch.n
  /\ batch.pc[j] = "written"
  /\ batch' = [batch EXCEPT
       !.pc[j] = "settled",
       !.running = 0,
       !.open = @ \ {j},
       !.stmt = [task |-> j, sql |-> "COMMIT", open |-> batch.open]]
  /\ UNCHANGED <<ixvars, gvars, metadata, schemaFile, sch, report, runs, faults, svars, sx>>

\* The loop ends when the last batch has settled.
BatchReturns ==
  /\ batch # NoBatch
  /\ batch.running = 0
  /\ batch.next >= batch.n
  /\ allSettled(batch)
  /\ batch' = NoBatch
  /\ UNCHANGED <<ixvars, gvars, metadata, schemaFile, sch, report, runs, faults, svars, sx>>

\* The files the next turn of the loop would take, when the loop can turn.
NextSlice ==
  IF batch # NoBatch /\ batch.running = 0 /\ batch.next < batch.n
                     /\ allSettled(batch)
    THEN slice(batch.next, batch.ceiling, batch.n)
    ELSE {}

BatchNext ==
  \/ \E n \in 1..MaxFiles, ceiling \in Ceilings : StartParseFiles(n, ceiling)
  \/ \E n \in 1..MaxFiles : StartBatchedReindex(n)
  \/ \E skipped \in SUBSET NextSlice : DispatchBatch(skipped)
  \/ \E j \in 1..MaxFiles, parsed \in BOOLEAN : ParseSettles(j, parsed)
  \/ \E j \in 1..MaxFiles, fails \in BOOLEAN : TaskWrites(j, fails)
  \/ \E j \in 1..MaxFiles : TaskCommits(j)
  \/ BatchReturns

SpecBatch == InitBatch /\ [][BatchNext]_vars

\* C12: in the batched reindex at most one file's transaction is open at any
\* time: BEGIN is only issued when no transaction is open, and a write, COMMIT
\* or ROLLBACK only when no other file's transaction is.
C12_OneOpenTransaction ==
  batch # NoBatch =>
    /\ Cardinality(batch.open) <= 1
    /\ batch.stmt.sql = "BEGIN" => batch.stmt.open = {}
    /\ batch.stmt.sql # "none" => batch.stmt.open \subseteq {batch.stmt.task}

\* A file's transaction is open while another file of the same batch is still
\* being parsed and a third has committed.
C12_Witness ==
  /\ batch # NoBatch /\ batch.op = "reindex"
  /\ \E j, k, l \in 1..batch.n :
       /\ batch.open = {j}
       /\ batch.pc[j] = "written"
       /\ batch.pc[k] = "parsing"
       /\ batch.pc[l] = "settled"

InFlight(b) == {j \in 1..b.n : b.pc[j] = "parsing"}

BatchOf(b, j) == (j - 1) \div b.ceiling

\* C13: the external parses in flight never exceed the ceiling, and no parse of
\* a later batch is started while a file of an earlier batch has not settled.
C13_BoundedDispatch ==
  batch # NoBatch =>
    /\ Cardinality(InFlight(batch)) <= batch.ceiling
    /\ \A j, k \in 1..batch.n :
         (BatchOf(batch, j) < BatchOf(batch, k) /\ batch.pc[k] # "pending")
           => batch.pc[j] = "settled"

\* The second batch is in flight, with as many parses as the ceiling allows,
\* in parseFiles with the default ceiling and in the batched reindex.
C13_Witness ==
  /\ batch # NoBatch
  /\ batch.next = 2 * batch.ceiling
  /\ batch.n > batch.ceiling
  /\ InFlight(batch) # {}
  /\ batch.ceiling \in {DefaultConcurrency, batchSize}

-----------------------------------------------------------------------------
(* IndexDatabase: the symbols table, its full-text index and searchSymbols *)

\* A text column is the sequence of the tokens the unicode61 tokenizer makes of
\* it, case folded; NULL and the empty text have none.
Words(text) == {text[i] : i \in 1..Len(text)}

\* The symbols row with the three text columns symbols_fts is declared over.
insertSymbolText(d, fileId, sym) ==
  LET d1  == insertSymbol(d, fileId, sym)
      row == CHOOSE r \in d1.symbols : r.id = d.nextSymId
  IN [d1 EXCEPT !.symbols = (@ \ {row}) \cup
        {[id |-> row.id, file_id |-> row.file_id, name |-> row.name,
          type |-> row.type, documentation |-> sym.documentation,
          signature |-> sym.signature]}]

\* Trigger symbols_ai: INSERT INTO symbols_fts(rowid, name, documentation,
\* signature) VALUES (new.id, ...)
symbols_ai(f, new) ==
  f \cup {[rowid |-> new.id, name |-> new.name,
           documentation |-> new.documentation, signature |-> new.signature]}

\* DELETE FROM symbols_fts WHERE rowid = ? on a table declared with
\* content='symbols': FTS5 reads the row's text back from symbols to find the
\* index entries to remove.  When symbols has no such row any more the result
\* is not defined by SQLite; purged says for which rowids the entries go.
ftsDelete(f, content, rowid, purged) ==
  IF (\E s \in content : s.id = rowid) \/ rowid \in purged
    THEN {e \in f : e.rowid # rowid}
    ELSE f

\* Trigger symbols_ad, AFTER DELETE ON symbols, for every row of `old`.
RECURSIVE symbols_ad(_, _, _, _)
symbols_ad(f, content, old, purged) ==
  IF old = {} THEN f
  ELSE LET row == CHOOSE r \in old : TRUE
       IN symbols_ad(ftsDelete(f, content, row.id, purged), content,
                     old \ {row}, purged)

\* DELETE FROM files WHERE path = ?; symbols.file_id is declared ON DELETE
\* CASCADE.
deleteFile(d, p) ==
  [d EXCEPT !.files[p] = NoRow,
            !.symbols = {s \in @ : s.file_id # d.files[p].id}]

DefaultSearchLimit == 10

\* MATCH of one index entry against a query.  FTS5 reads a query of bare
\* words as the AND of its words; "a" OR "b" asks for any of them.
ftsMatch(e, query) ==
  LET text == Words(e.name) \cup Words(e.documentation) \cup Words(e.signature)
  IN IF query.op = "AND"
       THEN \A i \in 1..Len(query.terms) : query.terms[i] \in text
       ELSE \E i \in 1..Len(query.terms) : query.terms[i] \in text

NoTypes == {}

FileOfSymbol(d, s) == {p \in Paths : d.files[p] # NoRow /\ d.files[p].id = s.file_id}

\* SELECT ... FROM symbols_fts JOIN symbols s ON s.id = symbols_fts.rowid
\* JOIN files f ON f.id = s.file_id WHERE symbols_fts MATCH ?
\* [AND f.file_type IN (...)]: the rows before ORDER BY rank LIMIT ?.
searchHits(d, f, query, fileTypes) ==
  {s \in d.symbols :
     /\ \E e \in f : e.rowid = s.id /\ ftsMatch(e, query)
     /\ \E p \in FileOfSymbol(d, s) :
          fileTypes = NoTypes \/ d.files[p].file_type \in fileTypes}

\* CodeIndexer.searchSymbols down to the statement IndexDatabase.searchSymbols
\* runs.  The second indexer hands the query text to MATCH as it is.  The
\* first indexer quotes the words and joins them with OR, and calls
\* db.searchSymbols(ftsQuery, fileTypes, k) where the parameters are (query,
\* limit, fileTypes): the list of categories is bound as the LIMIT, which the
\* statement rejects, and without one the limit is the default; k arrives as
\* fileTypes, has no length and filters nothing.
searchCall(legacy, terms, k, fileTypes) ==
  IF legacy
    THEN [query |-> [op |-> "OR", terms |-> terms],
          limit |-> DefaultSearchLimit, fileTypes |-> NoTypes,
          throws |-> fileTypes # NoTypes]
    ELSE [query |-> [op |-> "AND", terms |-> terms],
          limit |-> k, fileTypes |-> fileTypes, throws |-> FALSE]

-----------------------------------------------------------------------------
(* SpecSearch: writes to the symbols table and searches *)

MaxFileId == 3
MaxSearchSyms == 3

SymUser == [name |-> <<"user">>, type |-> "class",
            documentation |-> <<"account">>, signature |-> <<"class", "user">>]
SymSave == [name |-> <<"save">>, type |-> "method",
            documentation |-> << >>, signature |-> <<"def", "save">>]
SymFind == [name |-> <<"find", "by", "email">>, type |-> "method",
            documentation |-> << >>,
            signature |-> <<"def", "find", "by", "email", "user">>]

SearchSymbols == {SymUser, SymSave, SymFind}
SearchQueries == {<<"user">>, <<"save", "email">>}
SearchLimits == {1, DefaultSearchLimit}
SearchTypes == {NoTypes, {"model"}}

InitSearch ==
  /\ variant \in {"legacy", "regex", "native"}
  /\ now = 0
  /\ disk = [p \in Paths |-> [content |-> 1, mtime |-> 0]]
  /\ db = [files |-> [p \in Paths |-> NoRow], symbols |-> {},
           nextFileId |-> 1, nextSymId |-> 1]
  /\ run = Idle
  /\ last = NoLast
  /\ base = NoBase
  /\ fts = {}
  /\ sq = NoCall
  /\ metadata = NoMeta
  /\ schemaFile = 0
  /\ sch = EmptySchema
  /\ report = NoReport
  /\ runs = 0
  /\ faults = 0
  /\ batch = NoBatch
  /\ sx = NoText
  /\ GraphUnused

SearchFrame ==
  UNCHANGED <<variant, now, disk, run, last, base, gvars, metadata, schemaFile,
              sch, report, runs, faults, batch, sx>>

UpsertFile(p) ==
  /\ sq = NoCall
  /\ db.files[p] = NoRow
  /\ db.nextFileId <= MaxFileId
  /\ db' = upsertFile(db, p, Sha256(1), now, detectFileType(p), LineCount(1))
  /\ UNCHANGED svars
  /\ SearchFrame

InsertSymbol(p, sym) ==
  /\ sq = NoCall
  /\ db.files[p] # NoRow
  /\ db.nextSymId <= MaxSearchSyms
  /\ db' = insertSymbolText(db, FileId(db, p), sym)
  /\ fts' = symbols_ai(fts, CHOOSE r \in db'.symbols : r.id = db.nextSymId)
  /\ UNCHANGED sq
  /\ SearchFrame

DeleteSymbolsForFile(p, purged) ==
  /\ sq = NoCall
  /\ db.files[p] # NoRow
  /\ db' = deleteSymbolsForFile(db, FileId(db, p))
  /\ purged \subseteq {s.id : s \in db.symbols \ db'.symbols}
  /\ fts' = symbols_ad(fts, db'.symbols, db.symbols \ db'.symbols, purged)
  /\ UNCHANGED sq
  /\ SearchFrame

DeleteFile(p, purged) ==
  /\ sq = NoCall
  /\ db.files[p] # NoRow
  /\ db' = deleteFile(db, p)
  /\ purged \subseteq {s.id : s \in db.symbols \ db'.symbols}
  /\ fts' = symbols_ad(fts, db'.symbols, db.symbols \ db'.symbols, purged)
  /\ UNCHANGED sq
  /\ SearchFrame

ClearAll(purged) ==
  /\ sq = NoCall
  /\ db.symbols # {}
  /\ db' = clearAll(db)
  /\ purged \subseteq {s.id : s \in db.symbols}
  /\ fts' = symbols_ad(fts, db'.symbols, db.symbols, purged)
  /\ UNCHANGED sq
  /\ SearchFrame

\* CodeIndexer.searchSymbols(query, k, fileTypes).  ORDER BY rank LIMIT ? keeps
\* `limit` of the rows; which ones is left open.
SearchSymbolsCall(terms, k, fileTypes, rows) ==
  /\ sq = NoCall
  /\ LET call == searchCall(variant = "legacy", terms, k, fileTypes)
         hits == searchHits(db, fts, call.query, call.fileTypes)
     IN /\ rows \subseteq hits
        /\ Cardinality(rows) = Min(call.limit, Cardinality(hits))
        /\ call.throws => rows = {}
        /\ sq' = [op |-> "searchSymbols", terms |-> terms, k |-> k,
                  fileTypes |-> fileTypes,
                  outcome |-> IF call.throws THEN "threw" ELSE "rows",
                  rows |-> rows]
  /\ UNCHANGED <<db, fts>>
  /\ SearchFrame

SearchNext ==
  \/ \E p \in Paths : UpsertFile(p)
  \/ \E p \in Paths, sym \in SearchSymbols : InsertSymbol(p, sym)
  \/ \E p \in Paths, purged \in SUBSET (1..MaxSearchSyms) :
       DeleteSymbolsForFile(p, purged)
  \/ \E p \in Paths, purged \in SUBSET (1..MaxSearchSyms) : DeleteFile(p, purged)
  \/ \E purged \in SUBSET (1..MaxSearchSyms) : ClearAll(purged)
  \/ \E terms \in SearchQueries, k \in SearchLimits, fileTypes \in SearchTypes,
        rows \in SUBSET db.symbols :
       SearchSymbolsCall(terms, k, fileTypes, rows)

SpecSearch == InitSearch /\ [][SearchNext]_vars

\* C17: the full-text index holds exactly one entry per symbols row, with the
\* row's id, name, documentation and signature, and no entry for a row that is
\* gone.
C17_IndexMirrorsSymbols ==
  fts = {[rowid |-> s.id, name |-> s.name, documentation |-> s.documentation,
          signature |-> s.signature] : s \in db.symbols}

\* A symbol is a hit of the search when any one of the words of the query
\* occurs in its name, documentation or signature.
IsHit(s, terms) ==
  \E i \in 1..Len(terms) :
    terms[i] \in Words(s.name) \cup Words(s.documentation) \cup Words(s.signature)

InCategory(s, fileTypes) ==
  \E p \in FileOfSymbol(db, s) :
    fileTypes = NoTypes \/ db.files[p].file_type \in fileTypes

\* C18: a searchSymbols(q, k, categories) that returns, returns at most k
\* rows, each from a file of one of the categories when categories are given,
\* and a symbol that any one word of q matches is among them unless k rows were
\* already returned.
C18_SearchIsCappedFilteredOr ==
  (sq # NoCall /\ sq.outcome = "rows") =>
    /\ Cardinality(sq.rows) <= sq.k
    /\ \A s \in sq.rows : InCategory(s, sq.fileTypes)
    /\ \A s \in db.symbols :
         (IsHit(s, sq.terms) /\ InCategory(s, sq.fileTypes))
           => (s \in sq.rows \/ Cardinality(sq.rows) = sq.k)

-----------------------------------------------------------------------------
(* SchemaParser: db/schema.rb as a sequence of lines *)

\* A line of db/schema.rb.  `paren` says whether the line contains a closing
\* parenthesis, which is what ends the options group of tableRegex.
CreateTableLine(name, opts) ==
  [kind |-> "create_table", name |-> name, opts |-> opts, paren |-> FALSE]

ColumnLine(type, name, notNull, limit, paren) ==
  [kind |-> "column", type |-> type, name |-> name, notNull |-> notNull,
   limit |-> limit, paren |-> paren]

IndexLine(columns, name, unique) ==
  [kind |-> "index", columns |-> columns, name |-> name, unique |-> unique,
   paren |-> FALSE]

TimestampsLine == [kind |-> "timestamps", paren |-> FALSE]
EndLine == [kind |-> "end", paren |-> FALSE]

ForeignKeyLine(from, to) ==
  [kind |-> "add_foreign_key", from |-> from, to |-> to, paren |-> FALSE]

\* ActiveRecord::Schema[7.0].define(version: ...) do and the file's last end
DefineLine(version, underscored) ==
  [kind |-> "define", version |-> version, underscored |-> underscored,
   paren |-> TRUE]

SetMin(S) == CHOOSE x \in S : \A y \in S : x <= y
SetMax(S) == CHOOSE x \in S : \A y \in S : x >= y

\* /\n\s*end/: the lines that start with `end` after leading blanks.
EndAfter(lines, j) ==
  {k \in (j + 1)..Len(lines) : lines[k].kind \in {"end", "bottom"}}

\* [^)]* runs from the comma after the table name up to the first closing
\* parenthesis, or to the end of the text.
FirstParen(lines, i) ==
  LET parens == {k \in i..Len(lines) : lines[k].paren}
  IN IF parens = {} THEN Len(lines) + 1 ELSE SetMin(parens)

\* Where \s+do\s+\|t\| can match for the header on line i.  Without options
\* it has to follow the name, on line i.  With options the greedy [^)]* gives
\* back as little as it must: any `do |t|` before the first closing parenthesis
\* that still has an `end` line after it will do, and the last one is taken.
DoCandidates(lines, i) ==
  IF lines[i].opts = "none"
    THEN {j \in {i} : EndAfter(lines, j) # {}}
    ELSE {j \in i..Len(lines) :
            /\ lines[j].kind = "create_table"
            /\ j < FirstParen(lines, i)
            /\ EndAfter(lines, j) # {}}

\* The successive matches of tableRegex from line pos on: the header line,
\* the line whose `do |t|` was taken and the line of the closing `end`.
RECURSIVE tableMatches(_, _)
tableMatches(lines, pos) ==
  LET heads == {i \in pos..Len(lines) :
                  lines[i].kind = "create_table" /\ DoCandidates(lines, i) # {}}
  IN IF heads = {} THEN << >>
     ELSE LET i == SetMin(heads)
              j == SetMax(DoCandidates(lines, i))
              k == SetMin(EndAfter(lines, j))
          IN << [header |-> i, do |-> j, end |-> k] >>
             \o tableMatches(lines, k + 1)

\* The lines of one kind, in order.
Only(lines, kind) == SelectSeq(lines, LAMBDA l : l.kind = kind)

CCreatedAt == <<"c", "r", "e", "a", "t", "e", "d", "_", "a", "t">>
CUpdatedAt == <<"u", "p", "d", "a", "t", "e", "d", "_", "a", "t">>

\* parseColumns: the standard columns, then (when the body contains
\* t.timestamps) created_at and updated_at.  The texts of the model hold no
\* t.references lines.
parseColumns(tableBody) ==
  LET cols == Only(tableBody, "column")
  IN [n \in 1..Len(cols) |->
        [name |-> cols[n].name, type |-> cols[n].type,
         nullable |-> ~cols[n].notNull, limit |-> cols[n].limit]]
     \o (IF Only(tableBody, "timestamps") # << >>
           THEN << [name |-> CCreatedAt, type |-> "datetime",
                    nullable |-> FALSE, limit |-> 0],
                   [name |-> CUpdatedAt, type |-> "datetime",
                    nullable |-> FALSE, limit |-> 0] >>
           ELSE << >>)

RECURSIVE JoinAnd(_)
JoinAnd(columns) ==
  IF Len(columns) = 1 THEN columns[1]
  ELSE columns[1] \o <<"_", "a", "n", "d", "_">> \o JoinAnd(Tail(columns))

\* `index_${table}_on_${columns.join('_and_')}`
generateIndexName(table, columns) ==
  <<"i", "n", "d", "e", "x", "_">> \o table \o <<"_", "o", "n", "_">>
  \o JoinAnd(columns)

\* parseInlineIndexes: the t.index lines of the body; a name: option replaces
\* the generated name.
parseInlineIndexes(tableBody, tableName) ==
  LET idx == Only(tableBody, "index")
  IN [n \in 1..Len(idx) |->
        [name |-> IF idx[n].name # << >> THEN idx[n].name
                  ELSE generateIndexName(tableName, idx[n].columns),
         table |-> tableName, columns |-> idx[n].columns,
         unique |-> idx[n].unique]]

EndsWith(word, suffix) ==
  /\ Len(word) >= Len(suffix)
  /\ SubSeq(word, Len(word) - Len(suffix) + 1, Len(word)) = suffix

DropLast(word, n) == SubSeq(word, 1, Len(word) - n)

\* SchemaParser.singularize
parserSingularize(word) ==
  IF EndsWith(word, <<"i", "e", "s">>) THEN DropLast(word, 3) \o <<"y">>
  ELSE IF EndsWith(word, <<"e", "s">>) THEN DropLast(word, 2)
  ELSE IF EndsWith(word, <<"s">>) THEN DropLast(word, 1)
  ELSE word

\* parseForeignKeys: the add_foreign_key lines; the column defaults to the
\* singularized target with _id, the target column to id.
parseForeignKeys(lines) ==
  LET fks == Only(lines, "add_foreign_key")
  IN [n \in 1..Len(fks) |->
        [from_table |-> fks[n].from,
         from_column |-> parserSingularize(fks[n].to) \o <<"_", "i", "d">>,
         to_table |-> fks[n].to, to_column |-> CId]]

\* The version is taken by /define\(version:\s*(\d+)\)/, which a number
\* written with underscores does not match.
parseVersion(lines) ==
  LET defs == Only(lines, "define")
  IN IF defs # << >> /\ ~defs[1].underscored THEN defs[1].version ELSE 0

\* SchemaParser.parseContent.  The options of a match are everything from the
\* header's comma to the `do |t|` taken, the options of swallowed headers
\* included: primary_key stays 'id' unless `id: false` occurs in them.  The
\* texts of the model hold no add_index lines.
parseContent(lines) ==
  LET ms == tableMatches(lines, 1)
  IN [tables |->
        [n \in 1..Len(ms) |->
           LET tableBody == SubSeq(lines, ms[n].do + 1, ms[n].end - 1)
               options   == {lines[j].opts : j \in
                               {j \in ms[n].header..ms[n].do :
                                  lines[j].kind = "create_table"}}
               tableName == lines[ms[n].header].name
           IN [name |-> tableName,
               primary_key |-> IF "id_false" \in options THEN << >> ELSE CId,
               columns |-> parseColumns(tableBody),
               indexes |-> parseInlineIndexes(tableBody, tableName)]],
      foreign_keys |-> parseForeignKeys(lines),
      version |-> parseVersion(lines)]

-----------------------------------------------------------------------------
(* RailsAssociationMapper and CodeIndexer.suggestAssociations *)

\* singularize with the trailing-s rule tried first.
singularizeTrailingSFirst(word) ==
  IF EndsWith(word, <<"s">>) /\ ~EndsWith(word, <<"s", "s">>)
    THEN DropLast(word, 1)
  ELSE IF EndsWith(word, <<"i", "e", "s">>) THEN DropLast(word, 3) \o <<"y">>
  ELSE word

\* RailsAssociationMapper.singularize
singularize(word) ==
  IF EndsWith(word, <<"i", "e", "s">>) THEN DropLast(word, 3) \o <<"y">>
  ELSE IF \/ EndsWith(word, <<"s", "e", "s">>)
          \/ EndsWith(word, <<"x", "e", "s">>)
          \/ EndsWith(word, <<"z", "e", "s">>) THEN DropLast(word, 2)
  ELSE IF \/ EndsWith(word, <<"c", "h", "e", "s">>)
          \/ EndsWith(word, <<"s", "h", "e", "s">>) THEN DropLast(word, 2)
  ELSE IF EndsWith(word, <<"v", "e", "s">>) THEN DropLast(word, 3) \o <<"f">>
  ELSE IF EndsWith(word, <<"o", "e", "s">>) THEN DropLast(word, 2)
  ELSE IF EndsWith(word, <<"s">>) /\ ~EndsWith(word, <<"s", "s">>)
    THEN DropLast(word, 1)
  ELSE word

inferAssociationName(columnName, targetTable) ==
  IF EndsWith(columnName, <<"_", "i", "d">>) THEN DropLast(columnName, 3)
  ELSE singularize(targetTable)

\* Reading a property of a JavaScript object: a property the object does not
\* have reads as undefined, which equals no table name and is not truthy.
Undefined == <<"undefined">>
Property(obj, name) == IF name \in DOMAIN obj THEN obj[name] ELSE Undefined
Truthy(value) == value = TRUE

isUniqueColumn(tableName, columnName, indexes) ==
  \E idx \in indexes :
    /\ Property(idx, "table") = tableName
    /\ Truthy(Property(idx, "unique"))
    /\ Len(idx.columns) = 1
    /\ idx.columns[1] = columnName

\* word.slice(-2)
LastTwo(word) == IF Len(word) >= 2 THEN SubSeq(word, Len(word) - 1, Len(word))
                 ELSE word

\* RailsAssociationMapper.pluralize
pluralize(word) ==
  IF /\ EndsWith(word, <<"y">>)
     /\ LastTwo(word) \notin {<<"a", "y">>, <<"e", "y">>, <<"i", "y">>,
                              <<"o", "y">>, <<"u", "y">>}
    THEN DropLast(word, 1) \o <<"i", "e", "s">>
  ELSE IF \/ EndsWith(word, <<"s">>) \/ EndsWith(word, <<"x">>)
          \/ EndsWith(word, <<"z">>) \/ EndsWith(word, <<"c", "h">>)
          \/ EndsWith(word, <<"s", "h">>) THEN word \o <<"e", "s">>
  ELSE IF EndsWith(word, <<"f">>) THEN DropLast(word, 1) \o <<"v", "e", "s">>
  ELSE IF EndsWith(word, <<"f", "e">>)
    THEN DropLast(word, 2) \o <<"v", "e", "s">>
  ELSE IF /\ EndsWith(word, <<"o">>)
          /\ LastTwo(word) \notin {<<"e", "o">>, <<"i", "o">>, <<"o", "o">>}
    THEN word \o <<"e", "s">>
  ELSE word \o <<"s">>

LowerCase ==
  <<"a", "b", "c", "d", "e", "f", "g", "h", "i", "j", "k", "l", "m",
    "n", "o", "p", "q", "r", "s", "t", "u", "v", "w", "x", "y", "z">>
UpperCase ==
  <<"A", "B", "C", "D", "E", "F", "G", "H", "I", "J", "K", "L", "M",
    "N", "O", "P", "Q", "R", "S", "T", "U", "V", "W", "X", "Y", "Z">>

toUpperCase(c) ==
  IF \E i \in 1..26 : LowerCase[i] = c
    THEN UpperCase[CHOOSE i \in 1..26 : LowerCase[i] = c]
    ELSE c

\* camelize: split on '_', upper-case the first character of each part, join.
RECURSIVE camelizeFrom(_, _)
camelizeFrom(word, partStart) ==
  IF word = << >> THEN << >>
  ELSE IF Head(word) = "_" THEN camelizeFrom(Tail(word), TRUE)
  ELSE << IF partStart THEN toUpperCase(Head(word)) ELSE Head(word) >>
       \o camelizeFrom(Tail(word), FALSE)

camelize(word) == camelizeFrom(word, TRUE)

\* RailsAssociationMapper.tableToModel
tableToModel(tableName) == camelize(singularize(tableName))

\* The options of a suggestion: an option that is not set reads as undefined.
NoOptions ==
  [class_name |-> Undefined, foreign_key |-> Undefined,
   inverse_of |-> Undefined, dependent |-> Undefined]

\* The belongs_to options without the foreign_key test.
buildBelongsToOptionsAlwaysKey(fk) ==
  [NoOptions EXCEPT
     !.class_name =
        IF pluralize(inferAssociationName(fk.from_column, fk.to_table))
             # fk.to_table
          THEN tableToModel(fk.to_table) ELSE Undefined,
     !.foreign_key = fk.from_column,
     !.inverse_of = <<":">> \o fk.from_table]

\* RailsAssociationMapper.buildBelongsToOptions
buildBelongsToOptions(fk) ==
  [NoOptions EXCEPT
     !.class_name =
        IF pluralize(inferAssociationName(fk.from_column, fk.to_table))
             # fk.to_table
          THEN tableToModel(fk.to_table) ELSE Undefined,
     !.foreign_key =
        IF fk.from_column # singularize(fk.to_table) \o <<"_", "i", "d">>
          THEN fk.from_column ELSE Undefined,
     !.inverse_of = <<":">> \o fk.from_table]

\* The on_delete actions a foreign key can carry; NoAction is the absent
\* property of a parsed key and the NULL of a stored one.
NoAction == << >>
Cascade == <<"c", "a", "s", "c", "a", "d", "e">>
SetNull == <<"s", "e", "t", "_", "n", "u", "l", "l">>
Nullify == <<"n", "u", "l", "l", "i", "f", "y">>
Restrict == <<"r", "e", "s", "t", "r", "i", "c", "t">>

DependentDestroy == <<":", "d", "e", "s", "t", "r", "o", "y">>
DependentNullify == <<":", "n", "u", "l", "l", "i", "f", "y">>
DependentRestrict ==
  <<":", "r", "e", "s", "t", "r", "i", "c", "t", "_", "w", "i", "t", "h", "_",
    "e", "x", "c", "e", "p", "t", "i", "o", "n">>

\* RailsAssociationMapper.buildHasManyOptions
buildHasManyOptions(fk) ==
  [NoOptions EXCEPT
     !.dependent =
        IF Property(fk, "on_delete") = Cascade THEN DependentDestroy
        ELSE IF Property(fk, "on_delete") = SetNull THEN DependentNullify
        ELSE IF Property(fk, "on_delete") = Restrict THEN DependentRestrict
        ELSE Undefined,
     !.foreign_key =
        IF fk.from_column # singularize(fk.to_table) \o <<"_", "i", "d">>
          THEN fk.from_column ELSE Undefined,
     !.inverse_of =
        <<":">> \o inferAssociationName(fk.from_column, fk.to_table)]

\* RailsAssociationMapper.generateAssociations: belongs_to for the foreign
\* keys leaving the table, has_one / has_many for those arriving.  The two
\* inference helpers return nothing.  Each suggestion is kept with the foreign
\* key it comes from.
generateAssociations(tableName, foreignKeys, indexes) ==
  {[association_type |-> "belongs_to",
    name |-> inferAssociationName(fk.from_column, fk.to_table),
    options |-> buildBelongsToOptions(fk), fk |-> fk] :
     fk \in {fk \in foreignKeys : fk.from_table = tableName}}
  \cup
  {[association_type |->
      IF isUniqueColumn(fk.from_table, fk.from_column, indexes)
        THEN "has_one" ELSE "has_many",
    name |-> IF isUniqueColumn(fk.from_table, fk.from_column, indexes)
               THEN singularize(fk.from_table) ELSE fk.from_table,
    options |-> buildHasManyOptions(fk), fk |-> fk] :
     fk \in {fk \in foreignKeys : fk.to_table = tableName}}

\* IndexDatabase.getSchemaTable: the table row with its schema_indexes rows;
\* the columns text is JSON of a list of names and parses back to the list.
getSchemaTable(s, tableName) ==
  LET found == SchemaTableByName(s, tableName)
  IN IF found = {} THEN [found |-> FALSE]
     ELSE [found |-> TRUE,
           indexes |-> {i.row : i \in {i \in s.indexes :
                          i.row.table_id = SchemaTableId(s, tableName)}}]

\* CodeIndexer.suggestAssociations: the mapper is given every stored foreign
\* key and the indexes of the table asked about.
suggestAssociations(s, tableName) ==
  LET table == getSchemaTable(s, tableName)
  IN IF ~table.found THEN [outcome |-> "threw", associations |-> {}]
     ELSE [outcome |-> "returned",
           associations |->
             generateAssociations(tableName, {f.row : f \in s.foreign_keys},
                                  table.indexes)]

\* word.includes(part)
Includes(word, part) ==
  \E i \in 1..(Len(word) - Len(part) + 1) :
    SubSeq(word, i, i + Len(part) - 1) = part

NoValidation ==
  [kind |-> "none", column |-> << >>, maximum |-> 0, only_integer |-> FALSE,
   non_negative |-> FALSE, scope |-> << >>]

\* The validations suggestValidations pushes for one column, in order:
\* presence, length, numericality.  nullable is the stored 0 or 1 read as a
\* truth value, default_value and column_limit are NULL (empty text, 0) when
\* the schema gives none.
columnValidations(column) ==
  (IF /\ ~column.nullable
      /\ column.name # CId
      /\ ~EndsWith(column.name, <<"_", "a", "t">>)
      /\ column.default_value = << >>
     THEN << [NoValidation EXCEPT !.kind = "presence",
                                  !.column = column.name] >>
     ELSE << >>)
  \o (IF column.column_type = "string" /\ column.column_limit # 0
        THEN << [NoValidation EXCEPT !.kind = "length",
                                     !.column = column.name,
                                     !.maximum = column.column_limit] >>
        ELSE << >>)
  \o (IF /\ column.column_type \in {"integer", "decimal", "float"}
         /\ \/ column.column_type = "integer"
            \/ Includes(column.name, <<"p", "r", "i", "c", "e">>)
            \/ Includes(column.name, <<"a", "m", "o", "u", "n", "t">>)
        THEN << [NoValidation EXCEPT
                   !.kind = "numericality", !.column = column.name,
                   !.only_integer = (column.column_type = "integer"),
                   !.non_negative =
                      \/ Includes(column.name, <<"p", "r", "i", "c", "e">>)
                      \/ Includes(column.name,
                                  <<"a", "m", "o", "u", "n", "t">>)] >>
        ELSE << >>)

\* The uniqueness validation of one index row.
indexValidations(index) ==
  IF index.unique_index /\ Len(index.columns) >= 1
    THEN << [NoValidation EXCEPT !.kind = "uniqueness",
                                 !.column = index.columns[1],
                                 !.scope = Tail(index.columns)] >>
    ELSE << >>

RECURSIVE FlatMap(_, _)
FlatMap(Op(_), seq) ==
  IF seq = << >> THEN << >> ELSE Op(Head(seq)) \o FlatMap(Op, Tail(seq))

\* RailsAssociationMapper.suggestValidations
suggestValidations(columns, indexes) ==
  FlatMap(columnValidations, columns) \o FlatMap(indexValidations, indexes)

-----------------------------------------------------------------------------
(* SpecSchema: a schema text is parsed, stored and asked about *)

TProfiles == <<"p", "r", "o", "f", "i", "l", "e", "s">>
CSeenAt == <<"s", "e", "e", "n", "_", "a", "t">>
IProfilesUser == <<"i", "x", "_", "p", "r", "o", "f", "i", "l", "e", "s">>

TableNames == {TUsers, TPosts, TProfiles}
TableOptions == {"none", "force"}

\* A create_table block as Rails dumps it: users with email and timestamps,
\* posts with user_id and a plain index, profiles with user_id and a unique
\* index; `seen` adds a column whose default is a function call.
BlockBody(name, seen) ==
  (IF name = TUsers
     THEN << ColumnLine("string", CEmail, TRUE, 255, FALSE) >>
     ELSE << ColumnLine("bigint", CUserId, TRUE, 0, FALSE) >>)
  \o (IF seen THEN << ColumnLine("datetime", CSeenAt, FALSE, 0, TRUE) >>
      ELSE << >>)
  \o (IF name = TUsers THEN << TimestampsLine >>
      ELSE IF name = TPosts
        THEN << IndexLine(<< CUserId >>, IPostsUser, FALSE) >>
        ELSE << IndexLine(<< CUserId >>, IProfilesUser, TRUE) >>)

Block(b) ==
  << CreateTableLine(b.name, b.opts) >> \o BlockBody(b.name, b.seen)
  \o << EndLine >>

BlockChoices == [name : TableNames, opts : TableOptions, seen : BOOLEAN]

RECURSIVE Blocks(_)
Blocks(bs) == IF bs = << >> THEN << >> ELSE Block(Head(bs)) \o Blocks(Tail(bs))

MaxTables == 2

\* The texts of the model: up to MaxTables blocks of different tables between
\* the define line and the last end, then a foreign key to users for every
\* other table when users is declared.
SchemaTexts ==
  {[blocks |-> bs,
    lines |-> << DefineLine(1, FALSE) >> \o Blocks(bs)
              \o (IF \E n \in 1..Len(bs) : bs[n].name = TUsers
                    THEN LET others == SelectSeq(bs, LAMBDA b : b.name # TUsers)
                         IN [n \in 1..Len(others) |->
                               ForeignKeyLine(others[n].name, TUsers)]
                    ELSE << >>)
              \o << [kind |-> "bottom", paren |-> FALSE] >>] :
     bs \in {bs \in UNION {[1..n -> BlockChoices] : n \in 1..MaxTables} :
               \A m, n \in 1..Len(bs) : m # n => bs[m].name # bs[n].name}}

InitSchema ==
  /\ sx \in {[stage |-> "text", text |-> t] : t \in SchemaTexts}
  /\ metadata = NoMeta
  /\ schemaFile = 0
  /\ sch = EmptySchema
  /\ report = NoReport
  /\ runs = 0
  /\ faults = 0
  /\ batch = NoBatch
  /\ fts = {}
  /\ sq = NoCall
  /\ IndexerUnused
  /\ GraphUnused

SchemaFrame ==
  UNCHANGED <<ixvars, gvars, schemaFile, report, runs, faults, batch, svars>>

ParseContent ==
  /\ sx.stage = "text"
  /\ sx' = [stage |-> "parsed", text |-> sx.text,
            parsed |-> parseContent(sx.text.lines)]
  /\ UNCHANGED <<sch, metadata>>
  /\ SchemaFrame

\* indexSchema with the parse result in hand: clearSchema and the inserts.
StoreSchema ==
  /\ sx.stage = "parsed"
  /\ LET st == applySchemaWrites([sch |-> sch, metadata |-> metadata],
                                 schemaWrites(sx.parsed))
     IN /\ sch' = st.sch
        /\ metadata' = st.metadata
  /\ sx' = [sx EXCEPT !.stage = "stored"]
  /\ SchemaFrame

SuggestAssociations(tableName) ==
  /\ sx.stage = "stored"
  /\ sx' = [stage |-> "suggested", text |-> sx.text, parsed |-> sx.parsed,
            table |-> tableName,
            suggested |-> suggestAssociations(sch, tableName)]
  /\ UNCHANGED <<sch, metadata>>
  /\ SchemaFrame

SchemaNext ==
  \/ ParseContent
  \/ StoreSchema
  \/ \E tableName \in TableNames : SuggestAssociations(tableName)

SpecSchema == InitSchema /\ [][SchemaNext]_vars

\* The columns block n of a text declares, timestamps included.
BlockColumns(b) ==
  {l.name : l \in {BlockBody(b.name, b.seen)[m] :
                     m \in 1..Len(BlockBody(b.name, b.seen))} \cap
                  {l \in {BlockBody(b.name, b.seen)[m] :
                            m \in 1..Len(BlockBody(b.name, b.seen))} :
                     l.kind = "column"}}
  \cup (IF b.name = TUsers THEN {CCreatedAt, CUpdatedAt} ELSE {})

\* C19: for a text with k create_table blocks the parser returns k tables, the
\* n-th with the name of the n-th block and exactly that block's columns.
C19_OneTablePerBlock ==
  sx.stage \in {"parsed", "stored", "suggested"} =>
    /\ Len(sx.parsed.tables) = Len(sx.text.blocks)
    /\ \A n \in 1..Len(sx.parsed.tables) :
         /\ sx.parsed.tables[n].name = sx.text.blocks[n].name
         /\ {sx.parsed.tables[n].columns[m].name :
               m \in 1..Len(sx.parsed.tables[n].columns)}
              = BlockColumns(sx.text.blocks[n])

\* The referencing column of a stored foreign key is covered by a
\* single-column unique index of the referencing table.
CoveredByUniqueIndex(fk) ==
  \E t \in sch.tables, i \in sch.indexes :
    /\ t.name = fk.from_table
    /\ i.row.table_id = t.id
    /\ i.row.unique_index
    /\ i.row.columns = << fk.from_column >>

\* C20: suggestAssociations(table) gives, for every stored foreign key whose
\* target is the table, has_one named by the singularized referencing table
\* when the referencing column is covered by a single-column unique index of
\* the referencing table, and has_many named by the referencing table otherwise.
C20_HasOneIffUniqueIndex ==
  (sx.stage = "suggested" /\ sx.suggested.outcome = "returned") =>
    \A f \in sch.foreign_keys :
      f.row.to_table = sx.table =>
        \A a \in sx.suggested.associations :
          (a.fk = f.row /\ a.association_type # "belongs_to") =>
            IF CoveredByUniqueIndex(f.row)
              THEN /\ a.association_type = "has_one"
                   /\ a.name = singularize(f.row.from_table)
              ELSE /\ a.association_type = "has_many"
                   /\ a.name = f.row.from_table

-----------------------------------------------------------------------------
(* SpecMapper: the association mapper applied to foreign keys, words and
   columns *)

TCompanies == <<"c", "o", "m", "p", "a", "n", "i", "e", "s">>
CAuthorId == <<"a", "u", "t", "h", "o", "r", "_", "i", "d">>
COwner == <<"o", "w", "n", "e", "r">>
CGroupId == <<"g", "r", "o", "u", "p", "_", "i", "d">>
CPrice == <<"p", "r", "i", "c", "e">>

WCompany == <<"c", "o", "m", "p", "a", "n", "y">>
WBoxes == <<"b", "o", "x", "e", "s">>
WBox == <<"b", "o", "x">>
WLeaves == <<"l", "e", "a", "v", "e", "s">>
WLeaf == <<"l", "e", "a", "f">>
WCategory == <<"c", "a", "t", "e", "g", "o", "r", "y">>
WCategories == <<"c", "a", "t", "e", "g", "o", "r", "i", "e", "s">>
WAddress == <<"a", "d", "d", "r", "e", "s", "s">>
WAddresses == <<"a", "d", "d", "r", "e", "s", "s", "e", "s">>
WChurches == <<"c", "h", "u", "r", "c", "h", "e", "s">>
WDishes == <<"d", "i", "s", "h", "e", "s">>
WQuizzes == <<"q", "u", "i", "z", "z", "e", "s">>
WHeroes == <<"h", "e", "r", "o", "e", "s">>
WLife == <<"l", "i", "f", "e">>
WData == <<"d", "a", "t", "a">>
WMovies == <<"m", "o", "v", "i", "e", "s">>

\* GraphBuilder.tableNameToModelName: ies -> y, else es dropped, else s
\* dropped; then snake_case to CamelCase.
tableNameToModelName(tableName) ==
  camelize(IF EndsWith(tableName, <<"i", "e", "s">>)
             THEN DropLast(tableName, 3) \o <<"y">>
           ELSE IF EndsWith(tableName, <<"e", "s">>) THEN DropLast(tableName, 2)
           ELSE IF EndsWith(tableName, <<"s">>) THEN DropLast(tableName, 1)
           ELSE tableName)

\* CodeIndexer.tableToModel: ies -> y, else s dropped; then the same
\* snake_case to CamelCase.
indexerTableToModel(tableName) ==
  camelize(IF EndsWith(tableName, <<"i", "e", "s">>)
             THEN DropLast(tableName, 3) \o <<"y">>
           ELSE IF EndsWith(tableName, <<"s">>) THEN DropLast(tableName, 1)
           ELSE tableName)

\* One pass of the loop of parseForeignKeys with the options of the line:
\* column: and primary_key: replace the defaults, on_delete: is kept.  An
\* option the line does not give is << >>.
parseForeignKey(fromTable, toTable, options) ==
  [from_table |-> fromTable,
   from_column |-> IF options.column # << >> THEN options.column
                   ELSE parserSingularize(toTable) \o <<"_", "i", "d">>,
   to_table |-> toTable,
   to_column |-> IF options.primary_key # << >> THEN options.primary_key
                 ELSE CId,
   on_delete |-> options.on_delete]

\* The part of parseColumns that reads one references / belongs_to line of a
\* table body.  Written with a symbol (t.references :user) the line is taken
\* by the references pattern: the column <name>_id, a foreign key when the
\* options hold `foreign_key: true`, the column <name>_type when they hold
\* `polymorphic: true`.  Written with a quoted name (t.references "user") it
\* is taken by the pattern of the standard columns instead, as a column of
\* that name and of type references.
parseReference(tableName, line) ==
  LET nullable == ~line.options.notNull
  IN IF line.quoted
       THEN [columns |-> << [name |-> line.name, type |-> "references",
                             nullable |-> nullable, limit |-> 0] >>,
             foreign_keys |-> << >>]
       ELSE [columns |->
               << [name |-> line.name \o <<"_", "i", "d">>, type |-> "bigint",
                   nullable |-> nullable, limit |-> 0] >>
               \o (IF line.options.polymorphic
                     THEN << [name |-> line.name \o <<"_", "t", "y", "p", "e">>,
                              type |-> "string", nullable |-> nullable,
                              limit |-> 0] >>
                     ELSE << >>),
             foreign_keys |->
               IF line.options.foreign_key
                 THEN << [from_table |-> tableName,
                          from_column |-> line.name \o <<"_", "i", "d">>,
                          to_table |-> parserSingularize(line.name) \o <<"s">>,
                          to_column |-> CId] >>
                 ELSE << >>]

Nouns ==
  {TCompanies, WBoxes, WLeaves, WCategory, WAddress, WAddresses, WChurches,
   WDishes, WQuizzes, WHeroes, WLife, WData, WMovies, TUsers, TPosts}

\* The foreign keys handed to the mapper: parsed SchemaForeignKey objects or
\* schema_foreign_keys rows, which carry the same properties.
ForeignKeys ==
  [from_table : {TPosts, TUsers}, from_column : {CUserId, CAuthorId, COwner},
   to_table : {TUsers, TCompanies}, to_column : {CId},
   on_delete : {NoAction, Cascade, SetNull, Nullify, Restrict}]

MaxFks == 2

\* The keys that come together in one call: with and without an on-delete
\* action, from a conventional column and from one without the id suffix.
ForeignKeysTogether ==
  {fk \in ForeignKeys : /\ fk.from_column \in {CUserId, COwner}
                        /\ fk.on_delete \in {NoAction, Cascade}}

\* One call: any single key, or up to MaxFks keys that come together.
FkInputs ==
  {[stage |-> "fks", table |-> t, fks |-> fks] :
     t \in {TPosts, TUsers, TCompanies},
     fks \in {{fk} : fk \in ForeignKeys}
              \cup UNION {{{f[n] : n \in 1..m} : f \in [1..m -> ForeignKeysTogether]} :
                            m \in 1..MaxFks}}

WordInputs == {[stage |-> "word", word |-> w] : w \in Nouns}

\* schema_columns rows as getSchemaTable returns them.
ColumnRows ==
  [name : {CId, CEmail, CCreatedAt, CPrice}, column_type : {"string", "integer"},
   nullable : BOOLEAN, default_value : {<< >>, <<"0">>},
   column_limit : {0, 255}]

KeyColumn(name) ==
  [name |-> name, column_type |-> "bigint", nullable |-> FALSE,
   default_value |-> << >>, column_limit |-> 0]

MaxColumns == 2

\* The rows that come together in one table: string columns without default.
ColumnRowsTogether ==
  {c \in ColumnRows : /\ c.column_type = "string" /\ c.default_value = << >>
                      /\ c.column_limit = 0}

\* The tables asked about: a table keyed by id, with any one column or with
\* up to MaxColumns columns of different names, and a table keyed by the pair
\* (user_id, group_id), whose key columns are declared in its block.  key is
\* the table's primary key.
ColumnInputs ==
  {[stage |-> "columns", key |-> {CId}, columns |-> cs, indexes |-> ix] :
     cs \in {<< c >> : c \in ColumnRows}
             \cup {cs \in UNION {[1..n -> ColumnRowsTogether] : n \in 1..MaxColumns} :
                     \A m, n \in 1..Len(cs) : m # n => cs[m].name # cs[n].name},
     ix \in {<< >>,
             << [table_id |-> 1, name |-> IUsersEmail,
                 columns |-> << CEmail >>, unique_index |-> TRUE] >>}}
  \cup
  {[stage |-> "columns", key |-> {CUserId, CGroupId},
    columns |-> << KeyColumn(CUserId), KeyColumn(CGroupId) >>,
    indexes |-> << >>]}

CUuid == <<"u", "u", "i", "d">>

\* add_foreign_key "posts", "<noun>" lines, with and without column:,
\* primary_key: and on_delete: options.
ForeignKeyLineInputs ==
  {[stage |-> "fkline", from |-> TPosts, to |-> w, options |-> o] :
     w \in Nouns,
     o \in [column : {<< >>, CAuthorId}, primary_key : {<< >>, CUuid},
            on_delete : {NoAction, Cascade}]}

WUser == <<"u", "s", "e", "r">>

\* t.references lines in the body of create_table "posts".
ReferenceLineInputs ==
  {[stage |-> "refline", table |-> TPosts, line |-> l] :
     l \in [name : {WUser, WCategory, WAddress, WBox, WLeaf, WCompany},
            quoted : BOOLEAN,
            options : [foreign_key : BOOLEAN, polymorphic : BOOLEAN,
                       notNull : BOOLEAN]]}

InitMapper ==
  /\ sx \in FkInputs \cup WordInputs \cup ColumnInputs \cup ForeignKeyLineInputs
             \cup ReferenceLineInputs
  /\ metadata = NoMeta
  /\ schemaFile = 0
  /\ sch = EmptySchema
  /\ report = NoReport
  /\ runs = 0
  /\ faults = 0
  /\ batch = NoBatch
  /\ fts = {}
  /\ sq = NoCall
  /\ IndexerUnused
  /\ GraphUnused

MapperFrame ==
  UNCHANGED <<ixvars, gvars, metadata, schemaFile, sch, report, runs, faults,
              batch, svars>>

GenerateAssociations ==
  /\ sx.stage = "fks"
  /\ sx' = [stage |-> "associations", table |-> sx.table, fks |-> sx.fks,
            associations |-> generateAssociations(sx.table, sx.fks, {})]
  /\ MapperFrame

Singularize ==
  /\ sx.stage = "word"
  /\ sx' = [stage |-> "singular", word |-> sx.word,
            result |-> singularize(sx.word)]
  /\ MapperFrame

\* pluralize applied to a word, or to the result of singularize.
Pluralize ==
  /\ sx.stage \in {"word", "singular"}
  /\ sx' = [stage |-> "plural", word |-> sx.word, via |-> sx.stage,
            of |-> IF sx.stage = "word" THEN sx.word ELSE sx.result,
            result |-> pluralize(IF sx.stage = "word" THEN sx.word
                                 ELSE sx.result)]
  /\ MapperFrame

SuggestValidations ==
  /\ sx.stage = "columns"
  /\ sx' = [stage |-> "validations", key |-> sx.key, columns |-> sx.columns,
            indexes |-> sx.indexes,
            validations |-> suggestValidations(sx.columns, sx.indexes)]
  /\ MapperFrame

\* The model name of a table in the three places that derive one: the model
\* suggestAssociations reports, the model field generateAssociations gives
\* each association, and the key buildFromSchema attaches the backs edge to.
TableToModel ==
  /\ sx.stage = "word"
  /\ sx' = [stage |-> "model", word |-> sx.word,
            reported |-> indexerTableToModel(sx.word),
            association |-> tableToModel(sx.word),
            backs |-> tableNameToModelName(sx.word)]
  /\ MapperFrame

\* parseForeignKeys on the line.
ParseForeignKey ==
  /\ sx.stage = "fkline"
  /\ sx' = [stage |-> "parsed", to |-> sx.to, options |-> sx.options,
            fk |-> parseForeignKey(sx.from, sx.to, sx.options)]
  /\ MapperFrame

\* generateAssociations for the key's source table, given the parsed key.
MapParsedKey ==
  /\ sx.stage = "parsed"
  /\ sx' = [stage |-> "mapped", to |-> sx.to, options |-> sx.options,
            fk |-> sx.fk,
            suggested |-> generateAssociations(sx.fk.from_table, {sx.fk}, {})]
  /\ MapperFrame

\* parseColumns on the line.
ParseReference ==
  /\ sx.stage = "refline"
  /\ sx' = [stage |-> "reference", table |-> sx.table, line |-> sx.line,
            parsed |-> parseReference(sx.table, sx.line)]
  /\ MapperFrame

MapperNext ==
  \/ ParseReference
  \/ ParseForeignKey
  \/ MapParsedKey
  \/ GenerateAssociations
  \/ Singularize
  \/ Pluralize
  \/ SuggestValidations
  \/ TableToModel

SpecMapper == InitMapper /\ [][MapperNext]_vars

\* The belongs_to suggestions made for a foreign key of the call.
BelongsToOf(fk) ==
  {a \in sx.associations : a.association_type = "belongs_to" /\ a.fk = fk}

\* The has_one / has_many suggestions made for a foreign key of the call.
HasOf(fk) ==
  {a \in sx.associations : a.association_type # "belongs_to" /\ a.fk = fk}

\* The name, class_name, foreign_key and inverse_of of a belongs_to, as stated.
BelongsToAsStated(a, fk) ==
  /\ a.name = IF EndsWith(fk.from_column, <<"_", "i", "d">>)
                THEN DropLast(fk.from_column, 3)
                ELSE singularize(fk.to_table)
  /\ (a.options.class_name # Undefined) <=> (pluralize(a.name) # fk.to_table)
  /\ (a.options.foreign_key # Undefined)
       <=> (fk.from_column # singularize(fk.to_table) \o <<"_", "i", "d">>)
  /\ a.options.inverse_of # Undefined

\* C21 as stated: for each foreign key whose source is the table there is one
\* belongs_to, named and optioned as above, whose dependent option is set when
\* the key carries an on-delete action (cascade, set-null, restrict).
C21_BelongsToCarriesDependent ==
  sx.stage = "associations" =>
    \A fk \in sx.fks :
      fk.from_table = sx.table =>
        /\ Cardinality(BelongsToOf(fk)) = 1
        /\ \A a \in BelongsToOf(fk) :
             /\ BelongsToAsStated(a, fk)
             /\ fk.on_delete \in {Cascade, SetNull, Restrict}
                  => a.options.dependent # Undefined

\* C21 (amended): for each foreign key whose source is the table there is one
\* belongs_to, named from the column without its _id suffix (or from the
\* singularized target), with class_name set exactly when pluralizing the name
\* does not give the target table, foreign_key set exactly when the column is
\* not <singularize(target)>_id, inverse_of set and no dependent option; the
\* dependent option is carried by the has_one / has_many of each foreign key
\* whose target is the table: :destroy for cascade, :nullify for set_null,
\* :restrict_with_exception for restrict, none otherwise.
C21_BelongsToOptions ==
  sx.stage = "associations" =>
    /\ \A fk \in sx.fks :
         fk.from_table = sx.table =>
           /\ Cardinality(BelongsToOf(fk)) = 1
           /\ \A a \in BelongsToOf(fk) :
                /\ BelongsToAsStated(a, fk)
                /\ a.options.dependent = Undefined
    /\ \A fk \in sx.fks :
         fk.to_table = sx.table =>
           /\ Cardinality(HasOf(fk)) = 1
           /\ \A a \in HasOf(fk) :
                a.options.dependent =
                  CASE fk.on_delete = Cascade -> DependentDestroy
                    [] fk.on_delete = SetNull -> DependentNullify
                    [] fk.on_delete = Restrict -> DependentRestrict
                    [] OTHER -> Undefined

\* A call that suggests a belongs_to with class_name and foreign_key set for a
\* cascading key, and a has_many for another cascading key.
C21_Witness ==
  /\ sx.stage = "associations"
  /\ \E fk \in sx.fks, a \in sx.associations :
       /\ fk.from_table = sx.table /\ fk.on_delete = Cascade
       /\ a \in BelongsToOf(fk)
       /\ a.options.class_name # Undefined
       /\ a.options.foreign_key # Undefined
  /\ \E fk \in sx.fks, a \in sx.associations :
       /\ fk.to_table = sx.table /\ fk.on_delete = Cascade
       /\ a \in HasOf(fk)

\* The rules of singularize as stated, in their order: the suffixes a rule
\* applies to, how many characters it drops and what it appends.
StatedRules ==
  << [suffixes |-> {<<"i", "e", "s">>}, drop |-> 3, add |-> <<"y">>],
     [suffixes |-> {<<"s", "e", "s">>, <<"x", "e", "s">>, <<"z", "e", "s">>,
                    <<"c", "h", "e", "s">>, <<"s", "h", "e", "s">>},
      drop |-> 2, add |-> << >>],
     [suffixes |-> {<<"v", "e", "s">>}, drop |-> 3, add |-> <<"f">>],
     [suffixes |-> {<<"o", "e", "s">>}, drop |-> 2, add |-> << >>],
     [suffixes |-> {<<"s">>}, drop |-> 1, add |-> << >>] >>

RuleApplies(n, word) ==
  /\ \E suffix \in StatedRules[n].suffixes : EndsWith(word, suffix)
  /\ n = 5 => ~EndsWith(word, <<"s", "s">>)

StatedSingular(word) ==
  LET applying == {n \in 1..Len(StatedRules) : RuleApplies(n, word)}
  IN IF applying = {} THEN word
     ELSE DropLast(word, StatedRules[SetMin(applying)].drop)
          \o StatedRules[SetMin(applying)].add

\* C22: singularize gives what the first applicable rule of the stated list
\* gives (companies -> company, boxes -> box, leaves -> leaf); pluralize
\* of category is categories, and pluralize of singularize(address) is
\* addresses, not address.
C22_SingularizeRuleOrder ==
  /\ sx.stage = "singular" =>
       /\ sx.result = StatedSingular(sx.word)
       /\ sx.word = TCompanies => sx.result = WCompany
       /\ sx.word = WBoxes => sx.result = WBox
       /\ sx.word = WLeaves => sx.result = WLeaf
  /\ (sx.stage = "plural" /\ sx.of = WCategory) => sx.result = WCategories
  /\ (sx.stage = "plural" /\ sx.via = "singular" /\ sx.word = WAddress) =>
       /\ sx.of = WAddress
       /\ sx.result = WAddresses
       /\ sx.result # sx.word

\* pluralize has been applied to singularize(address).
C22_Witness ==
  /\ sx.stage = "plural"
  /\ sx.via = "singular"
  /\ sx.word = WAddress
  /\ sx.result = WAddresses

\* The columns a presence validation is suggested for.
PresenceSuggested ==
  {sx.validations[n].column :
     n \in {n \in 1..Len(sx.validations) :
              sx.validations[n].kind = "presence"}}

\* C23: a presence validation is suggested for exactly the columns that are
\* not nullable, are not part of the table's primary key, do not end in _at
\* and have no default.
C23_PresenceExactly ==
  sx.stage = "validations" =>
    PresenceSuggested =
      {sx.columns[n].name :
         n \in {n \in 1..Len(sx.columns) :
                  /\ ~sx.columns[n].nullable
                  /\ sx.columns[n].name \notin sx.key
                  /\ ~EndsWith(sx.columns[n].name, <<"_", "a", "t">>)
                  /\ sx.columns[n].default_value = << >>}}

-----------------------------------------------------------------------------
(* SpecParse: indexFile with the outcomes of the two parsers *)

\* What the spawned ruby process does with a file.  "result": it prints the
\* parse result and exits 0.  "rejected": the promise of parseFile rejects
\* (exit code other than 0, output that is not JSON, spawn error).
\* "error_object": RubyASTParser#parse rescues an exception raised while
\* parsing and returns {error, backtrace}, which the script prints before it
\* exits 0.
NativeOutcomes == {"result", "rejected", "error_object"}

\* RubyParser.parseFile never throws: when the file cannot be read or the
\* parse raises it returns emptyResult (no symbols, 0 lines).
RegexOutcomes == {"result", "empty"}

ParsedBy(c, parser) ==
  [by |-> parser, symbols |-> ParseSymbols(c),
   associations |-> AssociationSymbols(c), line_count |-> LineCount(c)]

\* JSON.parse of {error, backtrace}: symbols, associations and line_count are
\* undefined, which indexFile reads as nothing to insert and 0 lines.
ErrorObject ==
  [by |-> "native", symbols |-> << >>, associations |-> << >>,
   line_count |-> 0]

\* NativeRubyParser.parseFile
nativeParseFile(c, native) ==
  IF native = "rejected" THEN [outcome |-> "threw"]
  ELSE [outcome |-> "returned",
        result |-> IF native = "result" THEN ParsedBy(c, "native")
                   ELSE ErrorObject]

emptyResult ==
  [by |-> "regex", symbols |-> << >>, associations |-> << >>, line_count |-> 0]

regexParseFile(c, regex) ==
  [outcome |-> "returned",
   result |-> IF regex = "result" THEN ParsedBy(c, "regex") ELSE emptyResult]

\* The parser choice of indexFile: the native parser when it is available,
\* the regex parser when the native call throws or is not available.
selectParse(useNativeParser, c, native, regex) ==
  IF useNativeParser
    THEN IF nativeParseFile(c, native).outcome = "threw"
           THEN [invoked |-> << "native", "regex" >>,
                 parse |-> regexParseFile(c, regex)]
           ELSE [invoked |-> << "native" >>,
                 parse |-> nativeParseFile(c, native)]
    ELSE [invoked |-> << "regex" >>, parse |-> regexParseFile(c, regex)]

NoParse == [invoked |-> << >>, parse |-> [outcome |-> "none"]]

\* CodeIndexer.indexFile with the parsers' outcomes given: the read, the two
\* skip tests, the parse, then the writes from the parse result in hand.
indexFileParsing(d, p, file, useNativeParser, t, native, regex) ==
  IF ~Readable(file.content)
    THEN [db |-> d, outcome |-> "threw", sel |-> NoParse]
  ELSE
    LET hash         == Sha256(file.content)
        existingFile == getFileByPath(d, p)
        unchanged    == /\ existingFile # NoRow
                        /\ existingFile.hash = hash
                        /\ ~useNativeParser
        notModified  == /\ existingFile # NoRow
                        /\ file.mtime < existingFile.last_indexed
                        /\ existingFile.hash = hash
        sel          == selectParse(useNativeParser, file.content, native,
                                    regex)
    IN IF unchanged \/ notModified
         THEN [db |-> d, outcome |-> "skipped", sel |-> NoParse]
       ELSE IF sel.parse.outcome = "threw"
         THEN [db |-> d, outcome |-> "threw", sel |-> sel]
       ELSE
         LET d1 == upsertFile(d, p, hash, t, detectFileType(p),
                              sel.parse.result.line_count)
             d2 == insertSymbols(d1, FileId(d1, p), sel.parse.result.symbols)
             d3 == insertSymbols(d2, FileId(d1, p),
                                 sel.parse.result.associations)
         IN [db |-> d3, outcome |-> "indexed", sel |-> sel]

InitParse ==
  /\ variant \in {"regex", "native"}
  /\ now = 0
  /\ disk \in [Paths -> [content : 1..MaxContent, mtime : {0}]]
  /\ db = [files |-> [p \in Paths |-> NoRow], symbols |-> {},
           nextFileId |-> 1, nextSymId |-> 1]
  /\ run = Idle
  /\ last = NoLast
  /\ base = NoBase
  /\ sx = NoText
  /\ GraphUnused
  /\ ExtrasUnused

\* One call of indexFile.  last keeps what the call was given and what it did.
IndexFileParsing(p, native, regex) ==
  /\ HasRoom(disk[p].content)
  /\ LET r == indexFileParsing(db, p, disk[p], variant = "native", now,
                               native, regex)
     IN /\ db' = r.db
        /\ last' = [path |-> p, outcome |-> r.outcome,
                    invoked |-> r.sel.invoked, parse |-> r.sel.parse,
                    native |-> native, regex |-> regex,
                    fileId |-> FileId(r.db, p),
                    added |-> r.db.symbols \ db.symbols]
  /\ UNCHANGED <<variant, now, disk, run, base>>
  /\ UNCHANGED <<gvars, xvars>>

ParseNext ==
  \/ Tick
  \/ \E p \in Paths, native \in NativeOutcomes, regex \in RegexOutcomes :
       IndexFileParsing(p, native, regex)

SpecParse == InitParse /\ [][ParseNext]_vars

\* The names and types of the symbols a call added.
AddedSymbols == {[name |-> s.name, type |-> s.type] : s \in last.added}

RegexSymbols(c) ==
  {ParseSymbols(c)[n] : n \in 1..Len(ParseSymbols(c))}
  \cup {AssociationSymbols(c)[n] : n \in 1..Len(AssociationSymbols(c))}

-----------------------------------------------------------------------------
(* Claims about needsReindex, checked under SpecRun for the second indexer *)

\* C25: needsReindex(P) is false after a completed reindex of P that stored
\* at least one file; it is true when no repository path is stored, the
\* stored path is not P, no run has completed or the files table is empty;
\* and it is true while the store holds only what a full reindex of P wrote
\* before the process stopped.
C25_NeedsReindexUntilComplete ==
  variant # "legacy" =>
    /\ (report.success = "true" /\ \E p \in Paths : db.files[p] # NoRow) =>
         ~needsReindex(metadata, db, "repo")
    /\ \A P \in RepoPaths :
         (\/ metadata.repo_path = "" \/ metadata.repo_path # P
          \/ metadata.last_indexed = -1
          \/ \A p \in Paths : db.files[p] = NoRow) =>
           needsReindex(metadata, db, P)
    /\ (run = Idle /\ last # NoLast /\ last.step = "file" /\ last.stopped
        /\ last.full) =>
         needsReindex(metadata, db, "repo")

-----------------------------------------------------------------------------
(* More claims about the graph builder, checked under SpecBuilder *)

\* The file that defines a class of the fixtures.
DefiningFile(name) ==
  CASE name = NameBase -> "base"
    [] name = NameChild -> "child"
    [] name = NamePost -> "post"

ClassNodes(gr, name) == {n \in gr.nodes : n.kind = "class" /\ n.key = name}

\* The node carries its defining file's path and is not flagged inferred.
Authoritative(n) ==
  /\ n.file_path = FilePath(DefiningFile(n.key))
  /\ <<"inferred", TRUE>> \notin n.meta_json

\* C26: a class node that carries its definition keeps its file anchor, its
\* line range and its metadata, and is not flagged inferred, through every
\* projection of another file (which can only refer to it), whatever the
\* builder's cache holds.
C26_ReferenceKeepsDefinition ==
  built.file # "none" =>
    \A name \in {NameBase, NameChild, NamePost} :
      built.file # DefiningFile(name) =>
        \A b \in ClassNodes(built.before, name) :
          Authoritative(b) =>
            \A n \in ClassNodes(g, name) :
              /\ Authoritative(n)
              /\ n.start_line = b.start_line
              /\ n.end_line = b.end_line
              /\ n.meta_json = b.meta_json

-----------------------------------------------------------------------------
(* SpecRebuild: a GraphBuilder projecting files and their later versions *)

\* The file after an edit that removed everything but its class: the method,
\* the superclass, the include and extend lines, the association and the
\* require are gone.
EditedSymbols(f) ==
  <<[Head(FileSymbols(f)) EXCEPT !.parent = <<>>, !.superclass = <<>>,
                                 !.includes = <<>>, !.extends = <<>>,
                                 !.end_line = 2]>>

EditedParseResult(f) ==
  [symbols |-> EditedSymbols(f), associations |-> <<>>, dependencies |-> <<>>,
   line_count |-> 2]

RebuildInit ==
  /\ g = EmptyGraph
  /\ gq = NoCall
  /\ nodeCache = {}
  /\ built = NoBuild
  /\ IndexerUnused /\ ExtrasUnused

\* buildFromAST of the parse result of the edited file.
BuildFromEdited(f) ==
  /\ LET st == buildFromAST([g |-> g, cache |-> nodeCache], FilePath(f),
                            EditedParseResult(f))
     IN /\ g' = st.g
        /\ nodeCache' = st.cache
  /\ built' = [file |-> f, reversed |-> FALSE, before |-> g, repeat |-> FALSE,
               edited |-> TRUE]
  /\ UNCHANGED gq /\ UNCHANGED <<ixvars, xvars>>

\* One builder for the life of the store; a restart is part of SpecBuilder.
RebuildNext ==
  \/ \E f \in Files : BuildFromAST(f, FALSE)
  \/ \E f \in Files : BuildFromEdited(f)

SpecRebuild == RebuildInit /\ [][RebuildNext]_vars

\* The keys of the symbols a parse result reports.
SymbolKeys(symbols) == {buildSymbolKey(symbols[i]) : i \in 1..Len(symbols)}

\* The symbol nodes anchored in the file that its latest parse does not report.
StaleNodes(gr, f, symbols) ==
  {n \in gr.nodes : /\ n.kind \in {"class", "module", "method"}
                    /\ n.file_path = FilePath(f)
                    /\ n.key \notin SymbolKeys(symbols)}

DeclarationKinds ==
  {"inherits", "includes", "extends", "belongs_to", "has_many", "has_one",
   "has_and_belongs_to_many"}

\* The edges that only the earlier version of the file gave: a defines edge
\* to a stale node, and a declaration edge leaving the file's class, which
\* the edited file no longer declares.
StaleEdges(gr, f, symbols) ==
  {e \in gr.edges :
     \/ /\ e.kind = "defines"
        /\ getNode(gr, e.dst_id) \in StaleNodes(gr, f, symbols)
     \/ /\ e.kind \in DeclarationKinds
        /\ getNode(gr, e.src_id).kind = "class"
        /\ getNode(gr, e.src_id).key = Head(FileSymbols(f)).name}

\* C27: after the edited file is projected, the graph holds no symbol node
\* and no defines, inherits, includes, extends or association edge that came
\* only from what the file no longer holds.
C27_LatestParseOnly ==
  (built.file # "none" /\ "edited" \in DOMAIN built) =>
    /\ StaleNodes(g, built.file, EditedSymbols(built.file)) = {}
    /\ StaleEdges(g, built.file, EditedSymbols(built.file)) = {}

-----------------------------------------------------------------------------
(* Claims about the report of reindex(), checked under SpecRun *)

\* C28: in the report of a completed reindex the files considered are the
\* files indexed plus the files failed, the indexed count is the number of
\* files the run derived and stored anew (a file skipped as unchanged is not
\* counted), and the failed count is the number of files whose parse or
\* persistence failed.
C28_ReportCounts ==
  (report # NoReport /\ report.success = "true") =>
    /\ report.filesProcessed = report.filesIndexed + report.filesFailed
    /\ report.filesIndexed = Cardinality(report.stored)
    /\ report.filesFailed = Cardinality(report.failed)

-----------------------------------------------------------------------------
(* SpecKey: method definitions as the parsers report them, and their keys *)

NameSave == <<"s", "a", "v", "e">>
NameFind == <<"f", "i", "n", "d">>
SelfDot == <<"s", "e", "l", "f", ".">>
SelfReceiver == <<"s", "e", "l", "f">>

\* A method definition of a source file: `def name` or `def self.name`, in
\* the body of a class or (class = <<>>) at the top level of the file.
MethodDefs ==
  [class : {NameBase, NameChild, <<>>}, name : {NameSave, NameFind},
   level : {"instance", "class"}]

\* The regex parser, and the two branches of the Ruby script.
ParserForms == {"regex", "prism", "parser_gem"}

\* RubyParser.parseContent: one symbol of type method; a class-level method
\* is named self.<name>.  No method_type is set.
regexMethodSymbol(de) ==
  RubySymbol(IF de.level = "class" THEN SelfDot \o de.name ELSE de.name,
             "method", de.class, 1, 2)

\* walk_prism and walk_parser_ast: a method with its enclosing class as
\* parent, or a class_method whose parent is the receiver as written.  No
\* method_type is set.
scriptMethodSymbol(de) ==
  IF de.level = "class"
    THEN RubySymbol(de.name, "class_method", SelfReceiver, 1, 2)
    ELSE RubySymbol(de.name, "method", de.class, 1, 2)

reportMethod(form, de) ==
  IF form = "regex" THEN regexMethodSymbol(de) ELSE scriptMethodSymbol(de)

\* The node processSymbol upserts for a symbol: kind and key.
symbolNode(symbol) == <<symbol.type, buildSymbolKey(symbol)>>

InitKey ==
  /\ sx \in [stage : {"defs"}, form : ParserForms, a : MethodDefs, b : MethodDefs]
  /\ metadata = NoMeta
  /\ schemaFile = 0
  /\ sch = EmptySchema
  /\ report = NoReport
  /\ runs = 0
  /\ faults = 0
  /\ batch = NoBatch
  /\ fts = {}
  /\ sq = NoCall
  /\ IndexerUnused
  /\ GraphUnused

\* The parser reports the two definitions.
ReportMethods ==
  /\ sx.stage = "defs"
  /\ sx' = [stage |-> "symbols", form |-> sx.form, a |-> sx.a, b |-> sx.b,
            sa |-> reportMethod(sx.form, sx.a),
            sb |-> reportMethod(sx.form, sx.b)]
  /\ MapperFrame

\* The builder derives the nodes of the two symbols.
BuildSymbolKeys ==
  /\ sx.stage = "symbols"
  /\ sx' = [stage |-> "keys", form |-> sx.form, a |-> sx.a, b |-> sx.b,
            ka |-> buildSymbolKey(sx.sa), kb |-> buildSymbolKey(sx.sb),
            na |-> symbolNode(sx.sa), nb |-> symbolNode(sx.sb)]
  /\ MapperFrame

KeyNext ==
  \/ ReportMethods
  \/ BuildSymbolKeys

SpecKey == InitKey /\ [][KeyNext]_vars

\* <enclosing>#<name>, <enclosing>.<name>, or the bare name.
StatedKey(de) ==
  IF de.class = <<>> THEN de.name
  ELSE de.class \o <<IF de.level = "class" THEN "." ELSE "#">> \o de.name

\* C30: whatever parser reported them, a method's key is as stated, and two
\* methods of one name in different enclosing classes, or of one name and
\* different levels in one class, get different nodes.
C30_MethodKeys ==
  sx.stage = "keys" =>
    /\ sx.ka = StatedKey(sx.a)
    /\ sx.kb = StatedKey(sx.b)
    /\ ( /\ sx.a.name = sx.b.name
         /\ sx.a.class # <<>> /\ sx.b.class # <<>>
         /\ \/ sx.a.class # sx.b.class
            \/ sx.a.level # sx.b.level ) => sx.na # sx.nb

-----------------------------------------------------------------------------
(* SpecAssoc: one association declared in class Child, as the builder gets it *)

AssociationKinds == {"belongs_to", "has_many", "has_one", "has_and_belongs_to_many"}

ABase == <<"b", "a", "s", "e">>
APosts == <<"p", "o", "s", "t", "s">>
AChild == <<"c", "h", "i", "l", "d">>
AProfile == <<"p", "r", "o", "f", "i", "l", "e">>

\* The declaration in the body of class Child.  model_name is the owning
\* class when the parse result names it, and <<>> as the repository's own
\* parsers report an association: type and name only.  class_name is the
\* declaration's class_name: option, target_model an explicit target.
AssociationInputs ==
  [name : {ABase, APosts, AChild, AProfile}, type : AssociationKinds,
   model_name : {NameChild, <<>>}, class_name : {<<>>, NameBase},
   target_model : {<<>>, NamePost}]

InitAssoc ==
  /\ sx \in [stage : {"declared"}, assoc : AssociationInputs]
  /\ metadata = NoMeta
  /\ schemaFile = 0
  /\ sch = EmptySchema
  /\ report = NoReport
  /\ runs = 0
  /\ faults = 0
  /\ batch = NoBatch
  /\ fts = {}
  /\ sq = NoCall
  /\ IndexerUnused
  /\ GraphUnused

\* buildFromAST of base.rb or post.rb.
BuildOther(f) ==
  /\ sx.stage = "declared"
  /\ getNodeByKey(g, "file", FilePath(f)) = NullNode
  /\ LET st == buildFromAST([g |-> g, cache |-> nodeCache], FilePath(f),
                            ParseResult(f, FALSE))
     IN /\ g' = st.g
        /\ nodeCache' = st.cache
  /\ UNCHANGED <<gq, built>> /\ UNCHANGED <<ixvars, xvars>>

\* buildFromAST of child.rb: class Child with the declaration.
BuildWithAssociation ==
  /\ sx.stage = "declared"
  /\ LET st == buildFromAST([g |-> g, cache |-> nodeCache], FilePath("child"),
                 [symbols |-> FileSymbols("child"),
                  associations |-> <<sx.assoc>>,
                  dependencies |-> <<>>, line_count |-> 3])
     IN /\ g' = st.g
        /\ nodeCache' = st.cache
  /\ sx' = [stage |-> "projected", assoc |-> sx.assoc, before |-> g]
  /\ UNCHANGED <<gq, built>>
  /\ UNCHANGED <<ixvars, metadata, schemaFile, sch, report, runs, faults,
                 batch, svars>>

AssocNext ==
  \/ \E f \in {"base", "post"} : BuildOther(f)
  \/ BuildWithAssociation

SpecAssoc == InitAssoc /\ [][AssocNext]_vars

\* The target as stated: the explicitly named one, else the model inferred
\* from the association's name.
StatedTarget(assoc) ==
  IF assoc.target_model # <<>> THEN assoc.target_model
  ELSE IF assoc.class_name # <<>> THEN assoc.class_name
  ELSE camelize(singularize(assoc.name))

\* The association edges that the projection of child.rb added, and those
\* leaving the node of Child.
AssociationEdges ==
  {e \in g.edges : /\ e.kind \in AssociationKinds
                   /\ \/ e \notin sx.before.edges
                      \/ e.src_id = NodeId(g, "class", NameChild)}

\* C29: the declaration in class Child, whose node exists, gives exactly one
\* edge of its kind from the node of Child to the node of the target, and a
\* self-loop only when Child is the target.
C29_OneEdgePerAssociation ==
  sx.stage = "projected" =>
    LET owner == NodeId(g, "class", NameChild)
        edges == {e \in AssociationEdges : e.kind = sx.assoc.type}
    IN /\ owner # 0
       /\ Cardinality(edges) = 1
       /\ \A e \in edges :
            /\ e.src_id = owner
            /\ getNode(g, e.dst_id).kind = "class"
            /\ getNode(g, e.dst_id).key = StatedTarget(sx.assoc)
            /\ e.src_id = e.dst_id => StatedTarget(sx.assoc) = NameChild

-----------------------------------------------------------------------------
(* Claims about the naming transforms, checked under SpecMapper *)

\* C31: for every table name the graph builder, the association mapper and
\* the indexer derive the same model name, so the model suggestAssociations
\* reports, the model of each association and the key of the backs edge agree.
C31_OneTableToModel ==
  sx.stage = "model" =>
    /\ sx.reported = sx.association
    /\ sx.association = sx.backs

\* C32: a foreign key written without column: gets the column
\* <singularize(to_table)>_id, with the mapper's singularize, so its
\* belongs_to is named singularize(to_table) and has no foreign_key option;
\* without primary_key: the target column is id; a given column: or
\* primary_key: is taken as written.
C32_DefaultKeyIsConventional ==
  sx.stage = "mapped" =>
    /\ sx.options.column = << >> =>
         /\ sx.fk.from_column = singularize(sx.to) \o <<"_", "i", "d">>
         /\ \A a \in sx.suggested :
              a.association_type = "belongs_to" =>
                /\ a.name = singularize(sx.to)
                /\ a.options.foreign_key = Undefined
    /\ sx.options.column # << >> => sx.fk.from_column = sx.options.column
    /\ sx.fk.to_column = IF sx.options.primary_key = << >> THEN CId
                         ELSE sx.options.primary_key

SeqRange(seq) == {seq[i] : i \in 1..Len(seq)}

\* C33: a references line for n adds the column n_id; marked as a foreign
\* key it records a key from n_id to the table pluralize(n), column id, with
\* the mapper's pluralize; marked polymorphic it adds the string column
\* n_type.
C33_ReferenceShorthand ==
  sx.stage = "reference" =>
    LET n == sx.line.name
        columns == SeqRange(sx.parsed.columns)
        keys == SeqRange(sx.parsed.foreign_keys)
    IN /\ \E c \in columns : c.name = n \o <<"_", "i", "d">>
       /\ sx.line.options.foreign_key =>
            \E fk \in keys :
              /\ fk.from_table = sx.table
              /\ fk.from_column = n \o <<"_", "i", "d">>
              /\ fk.to_table = pluralize(n)
              /\ fk.to_column = CId
       /\ sx.line.options.polymorphic =>
            \E c \in columns : /\ c.name = n \o <<"_", "t", "y", "p", "e">>
                               /\ c.type = "string"

-----------------------------------------------------------------------------
(* SpecFiles: RubyParser.parseFiles with its results and errors maps *)

MaxPaths == 6

\* A rejection that leaves the task's async function: no try / catch around
\* `await this.parseFile(filePath)`.
taskSettledNoCatch(resolved) == IF resolved THEN "resolved" ELSE "thrown"

\* try { results.set(filePath, await this.parseFile(filePath)) }
\* catch (error) { errors.set(filePath, error) }: the task's promise resolves
\* either way.
taskSettled(resolved) == IF resolved THEN "resolved" ELSE "rejected"

\* The call: n distinct paths, the positions of filePaths.  pc[j] is where
\* the task of path j stands, results and errors are the keys of the two
\* maps, state is "looping" until the call returns or rejects.
NewCall(n, concurrency) ==
  [op |-> "files", n |-> n, ceiling |-> concurrency, next |-> 0,
   pc |-> [j \in 1..n |-> "pending"], results |-> {}, errors |-> {},
   state |-> "looping"]

InitFiles ==
  /\ batch \in {NewCall(n, c) : n \in 1..MaxPaths, c \in Ceilings}
  /\ metadata = NoMeta
  /\ schemaFile = 0
  /\ sch = EmptySchema
  /\ report = NoReport
  /\ runs = 0
  /\ faults = 0
  /\ fts = {}
  /\ sq = NoCall
  /\ sx = NoText
  /\ IndexerUnused
  /\ GraphUnused

FilesFrame ==
  UNCHANGED <<ixvars, gvars, metadata, schemaFile, sch, report, runs, faults,
              svars, sx>>

\* The promises of the batches dispatched so far have all settled.
batchSettled(b) == \A j \in dispatched(b) : b.pc[j] \notin {"pending", "parsing"}

\* The loop goes on after `await Promise.all(promises)`, or starts: a promise
\* that rejected makes the call reject; otherwise the next slice is mapped,
\* every parseFile of it spawning its parser at once, or, past the last
\* slice, the errors are logged and the results returned.
LoopTurns ==
  /\ batch.state = "looping"
  /\ batchSettled(batch)
  /\ batch' =
       IF \E j \in dispatched(batch) : batch.pc[j] = "thrown"
         THEN [batch EXCEPT !.state = "rejected"]
       ELSE IF batch.next < batch.n
         THEN [batch EXCEPT
                 !.next = @ + batch.ceiling,
                 !.pc = [j \in 1..batch.n |->
                           IF j \in slice(batch.next, batch.ceiling, batch.n)
                             THEN "parsing" ELSE @[j]]]
       ELSE [batch EXCEPT !.state = "returned"]
  /\ FilesFrame

\* The external parser of path j closes, or fails to spawn, or the file is
\* missing: parseFile resolves or rejects and the task records it.
ParseFileSettles(j, resolved) ==
  /\ batch.state = "looping"
  /\ j \in 1..batch.n
  /\ batch.pc[j] = "parsing"
  /\ batch' = [batch EXCEPT
       !.pc[j] = taskSettled(resolved),
       !.results = IF resolved THEN @ \cup {j} ELSE @,
       !.errors = IF taskSettled(resolved) = "rejected" THEN @ \cup {j} ELSE @]
  /\ FilesFrame

FilesNext ==
  \/ LoopTurns
  \/ \E j \in 1..MaxPaths, resolved \in BOOLEAN : ParseFileSettles(j, resolved)

\* The event loop runs a continuation that is ready, and (the claim's
\* premise) every external parse settles.
SpecFiles ==
  /\ InitFiles /\ [][FilesNext]_vars
  /\ WF_vars(LoopTurns)
  /\ \A j \in 1..MaxPaths :
       WF_vars(\E resolved \in BOOLEAN : ParseFileSettles(j, resolved))

\* The call has returned with every path attempted and in exactly one of the
\* two maps: results when its parse resolved, errors when it rejected.
ReturnedComplete ==
  /\ batch.state = "returned"
  /\ batch.results \cup batch.errors = 1..batch.n
  /\ batch.results \cap batch.errors = {}
  /\ batch.results = {j \in 1..batch.n : batch.pc[j] = "resolved"}
  /\ batch.errors = {j \in 1..batch.n : batch.pc[j] = "rejected"}

\* C34: when every external parse settles, parseFiles returns, with every
\* input path attempted and in exactly one of results and errors; a rejected
\* parse stops neither its batch nor the later ones.
C34_ParseFilesReturns == <>ReturnedComplete

\* The call returned after a parse of the first batch was rejected and a
\* parse of a later batch resolved.
C34_Witness ==
  /\ ReturnedComplete
  /\ \E j \in batch.errors, k \in batch.results :
       /\ j <= batch.ceiling
       /\ k > batch.ceiling

-----------------------------------------------------------------------------
(* More claims about neighbors, checked under SpecNeighbors *)

\* Every edge of the store has a node row at both ends.
EndpointsExist(gr) ==
  \A e \in gr.edges :
    getNode(gr, e.src_id) # NullNode /\ getNode(gr, e.dst_id) # NullNode

\* C35: on a store whose edges all have both endpoints, every returned edge
\* has its source and its destination among the returned nodes, and every
\* returned node but the start node is an endpoint of a returned edge.
C35_ResultIsClosed ==
  (gq.op = "neighbors" /\ EndpointsExist(g)) =>
    LET nodeIds == Ids(gq.result.nodes)
        edges   == {gq.result.edges[i] : i \in 1..Len(gq.result.edges)}
    IN /\ \A e \in edges : e.src_id \in nodeIds /\ e.dst_id \in nodeIds
       /\ \A id \in nodeIds \ {gq.nodeId} :
            \E e \in edges : e.src_id = id \/ e.dst_id = id

\* A depth-2 call in both directions from node 2 of a chain with the cycle
\* edge and the edge against the chain: edges and nodes on both sides of the
\* start node are returned, one edge joining two nodes that are not the start.
C35_Witness ==
  /\ gq.op = "neighbors" /\ EndpointsExist(g)
  /\ gq.nodeId = 2 /\ gq.dir = "both" /\ gq.depth = 2
  /\ Len(gq.result.nodes) >= 4
  /\ \E i \in 1..Len(gq.result.edges) :
       /\ gq.result.edges[i].src_id # 2
       /\ gq.result.edges[i].dst_id # 2

-----------------------------------------------------------------------------
(* SpecCache: one GraphBuilder, its name -> id cache, and clearGraph *)

MaxNodeId == 6

NameMoney == <<"M", "o", "n", "e", "y">>
NamePrice == <<"P", "r", "i", "c", "e">>
NameWallet == <<"W", "a", "l", "l", "e", "t">>
NameCents == <<"c", "e", "n", "t", "s">>

\* Five files around the name Money:
\*   concern.rb  module Money with a method cents
\*   money.rb    class Money
\*   kernel.rb   def Money(value) at the top level, a conversion method
\*   price.rb    class Price, include Money and extend Money
\*   wallet.rb   class Wallet < Money
CacheFiles == {"concern", "money", "kernel", "price", "wallet"}

CacheFilePath(f) ==
  CASE f = "concern" -> <<"app", "models", "concern.rb">>
    [] f = "money"   -> <<"app", "models", "money.rb">>
    [] f = "kernel"  -> <<"lib", "kernel.rb">>
    [] f = "price"   -> <<"app", "models", "price.rb">>
    [] f = "wallet"  -> <<"app", "models", "wallet.rb">>

CacheFileSymbols(f) ==
  CASE f = "concern" ->
         <<RubySymbol(NameMoney, "module", <<>>, 1, 5),
           RubySymbol(NameCents, "method", NameMoney, 2, 4)>>
    [] f = "money" ->
         <<RubySymbol(NameMoney, "class", <<>>, 1, 3)>>
    [] f = "kernel" ->
         <<RubySymbol(NameMoney, "method", <<>>, 1, 3)>>
    [] f = "price" ->
         <<[RubySymbol(NamePrice, "class", <<>>, 1, 4) EXCEPT
              !.includes = <<NameMoney>>, !.extends = <<NameMoney>>]>>
    [] f = "wallet" ->
         <<[RubySymbol(NameWallet, "class", <<>>, 1, 3) EXCEPT
              !.superclass = NameMoney]>>

CacheParseResult(f) ==
  [symbols |-> CacheFileSymbols(f), associations |-> <<>>,
   dependencies |-> <<>>, line_count |-> CacheFileSymbols(f)[1].end_line]

\* SQLiteGraphStore.clearGraph: DELETE FROM kg_edges, DELETE FROM kg_nodes.
\* Whether the ids start again at 1 depends on the tables' declaration:
\* with AUTOINCREMENT they keep counting, without it they restart.
clearGraph(gr, restart) ==
  [nodes |-> {}, edges |-> {},
   nextNodeId |-> IF restart THEN 1 ELSE gr.nextNodeId,
   nextEdgeId |-> IF restart THEN 1 ELSE gr.nextEdgeId]

InitCache ==
  /\ GraphUnused
  /\ IndexerUnused /\ ExtrasUnused

\* buildFromAST of one of the five files, by the one builder; each file is
\* projected once into a graph.
BuildCached(f) ==
  /\ getNodeByKey(g, "file", CacheFilePath(f)) = NullNode
  /\ LET st == buildFromAST([g |-> g, cache |-> nodeCache], CacheFilePath(f),
                            CacheParseResult(f))
     IN /\ g' = st.g
        /\ nodeCache' = st.cache
  /\ built' = [file |-> f, before |-> g]
  /\ UNCHANGED gq /\ UNCHANGED <<ixvars, xvars>>

\* GraphBuilder.clearGraph: this.graph.clearGraph(); this.nodeCache.clear().
ClearGraph(restart) ==
  /\ g.nodes # {}
  /\ restart \/ g.nextNodeId <= MaxNodeId
  /\ g' = clearGraph(g, restart)
  /\ nodeCache' = {}
  /\ built' = [file |-> "cleared", before |-> g]
  /\ UNCHANGED gq /\ UNCHANGED <<ixvars, xvars>>

CacheNext ==
  \/ \E f \in CacheFiles : BuildCached(f)
  \/ \E restart \in BOOLEAN : ClearGraph(restart)

SpecCache == InitCache /\ [][CacheNext]_vars

\* The kind the destination of an edge of the given kind must have.
RequiredKind(edgeKind) ==
  IF edgeKind = "inherits" THEN "class" ELSE "module"

\* The name of the enclosing symbol in a symbol node's metadata, <<>> when
\* there is none.
ParentOf(n) ==
  IF \E m \in n.meta_json : m[1] = "parent"
    THEN (CHOOSE m \in n.meta_json : m[1] = "parent")[2]
    ELSE <<>>

\* C36: the destination of every inherits edge is an existing class node, the
\* destination of every includes or extends edge an existing module node, and
\* every defines edge that does not leave a file node leaves the class or
\* module node named as the enclosing symbol of its destination.
C36_CachedIdsFit ==
  \A e \in g.edges :
    /\ e.kind \in {"inherits", "includes", "extends"} =>
         getNode(g, e.dst_id).kind = RequiredKind(e.kind)
    /\ (e.kind = "defines" /\ getNode(g, e.src_id).kind # "file") =>
         /\ getNode(g, e.src_id).kind \in {"class", "module"}
         /\ getNode(g, e.src_id).key = ParentOf(getNode(g, e.dst_id))

-----------------------------------------------------------------------------
(* SpecHistory: SchemaParser instances that parse one text after another *)

\* parseContent of the instance self, whose fields tables, foreign_keys and
\* version are what its earlier calls left: tables.clear() and
\* foreign_keys = [] come first, this.version is assigned only when the
\* define line matches, and the three fields are what the call returns.
parseContentOf(self, lines) ==
  LET cleared == [self EXCEPT !.tables = << >>, !.foreign_keys = << >>]
      found   == parseContent(lines)
  IN [tables       |-> cleared.tables \o found.tables,
      foreign_keys |-> cleared.foreign_keys \o found.foreign_keys,
      version      |-> IF parseVersion(lines) # 0 THEN parseVersion(lines)
                       ELSE cleared.version]

\* new SchemaParser(): no table, no foreign key, version undefined.
NewParser == [tables |-> << >>, foreign_keys |-> << >>, version |-> 0]

Parsers == {"first", "second"}

Bottom == [kind |-> "bottom", paren |-> FALSE]

UsersBlock == Block([name |-> TUsers, opts |-> "none", seen |-> FALSE])
PostsBlock == Block([name |-> TPosts, opts |-> "none", seen |-> FALSE])
ProfilesBlock == Block([name |-> TProfiles, opts |-> "none", seen |-> FALSE])

\* The texts the parsers are given: two dumps with the versions 1 and 2, a
\* dump whose version is written with underscores, a text with no define
\* line, a dump with version 1 and another table, and one with version 3.
HistoryTexts ==
  { << DefineLine(1, FALSE) >> \o UsersBlock \o << Bottom >>,
    << DefineLine(3, FALSE) >> \o ProfilesBlock \o << Bottom >>,
    << DefineLine(2, FALSE) >> \o UsersBlock \o PostsBlock
      \o << ForeignKeyLine(TPosts, TUsers), Bottom >>,
    << DefineLine(2, TRUE) >> \o ProfilesBlock \o << Bottom >>,
    PostsBlock,
    << DefineLine(1, FALSE) >> \o PostsBlock \o << Bottom >> }

InitHistory ==
  /\ sx = [stage |-> "parsers",
           parser |-> [i \in Parsers |-> NewParser],
           call   |-> [i \in Parsers |-> NoCall]]
  /\ metadata = NoMeta
  /\ schemaFile = 0
  /\ sch = EmptySchema
  /\ report = NoReport
  /\ runs = 0
  /\ faults = 0
  /\ batch = NoBatch
  /\ fts = {}
  /\ sq = NoCall
  /\ IndexerUnused
  /\ GraphUnused

\* parser i is given a text; call[i] keeps the text and what was returned.
ParseContentBy(i, lines) ==
  /\ sx.stage = "parsers"
  /\ LET result == parseContentOf(sx.parser[i], lines)
     IN sx' = [sx EXCEPT !.parser[i] = result,
                         !.call[i] = [op |-> "parseContent", lines |-> lines,
                                      result |-> result]]
  /\ UNCHANGED <<sch, metadata>>
  /\ SchemaFrame

HistoryNext == \E i \in Parsers, lines \in HistoryTexts : ParseContentBy(i, lines)

SpecHistory == InitHistory /\ [][HistoryNext]_vars

\* C37: what parseContent returns is what a new parser returns for the same
\* text, so two parsers given the same text return the same tables, foreign
\* keys and version whatever they parsed before.
C37_ResultFromContentOnly ==
  sx.stage = "parsers" =>
    /\ \A i \in Parsers :
         sx.call[i].op = "parseContent" =>
           sx.call[i].result = parseContentOf(NewParser, sx.call[i].lines)
    /\ \A i, j \in Parsers :
         (/\ sx.call[i].op = "parseContent"
          /\ sx.call[j].op = "parseContent"
          /\ sx.call[i].lines = sx.call[j].lines) =>
           sx.call[i].result = sx.call[j].result

====
